---- MODULE Spec2Model ----
(***************************************************************************)
(* nanoprep: voltage primitives (pulses, sweeps, breakdown, offset         *)
(* nulling), the sample sinks and the protocols that compose them,         *)
(* modelled from src/nanoprep.                                             *)
(*                                                                         *)
(* Time is counted in clock ticks (one tick stands for one unit of         *)
(* time.perf_counter()).  Voltages, currents and sizes are integers in     *)
(* arbitrary units; a voltage computed by a division is kept as an exact   *)
(* fraction [n, d].                                                        *)
(***************************************************************************)
EXTENDS Integers, Sequences, FiniteSets, TLC

VARIABLES
    \* ---- sample sinks (utilities/emitter.py) ----
    kind,        \* "transient" (Emitter) or "sustained" (SustainedEmitter)
    mem,         \* SustainedEmitter's self.time .. self.state
    calls,       \* history: the arguments of every record call
    emitted,     \* history: the data of every emit("results", data)
    \* ---- clock, timer, aborter, device ----
    now,         \* the last value time.perf_counter() returned
    stalls,      \* history: readings that returned the same value as the one before
    laps,        \* Timer.laps
    stop,        \* the should_stop predicate's answer (true once the operator stopped)
    npolls,      \* history: should_abort calls of the current primitive
    abortPoll,   \* history: which of them first answered true (0: none yet)
    source,      \* sourcemeter.source_voltage
    cmds,        \* history: every assignment to sourcemeter.source_voltage
    nreads,      \* history: reads of sourcemeter.current
    readsAfter,  \* history: those made after should_abort answered true
    samples,     \* history: the samples the primitives recorded
    \* ---- the running primitive ----
    pc,          \* position in the running primitive, "idle" between primitives
    prim,        \* the primitive called last
    par,         \* its arguments
    loc,         \* its local variables
    offset,      \* the run's pipette_offset argument
    base,        \* history: Len(samples) when the primitive was called
    cbase,       \* history: Len(cmds) when the primitive was called
    ncalls,      \* history: primitives called in this run
    outcome,     \* "none", "returned" or "raised": how the last primitive ended
    result,      \* its return value
    raised,      \* the exception it raised, "none" if none
    \* ---- the protocol (sample_config.py) ----
    proto,       \* the protocol being run, "free" for a free composition
    ppc,         \* position in the protocol's run()
    pstate,      \* the protocol's local variables
    env          \* the environment: clock steps, clock horizon, device currents

sinkVars  == <<kind, mem, calls, emitted>>
protoVars == <<proto, ppc, pstate, env>>
primVars  == <<now, stalls, laps, stop, npolls, abortPoll, source, cmds, nreads,
               readsAfter, samples, pc, prim, par, loc, offset, base, cbase,
               ncalls, outcome, result, raised>>
vars == <<kind, mem, calls, emitted, now, stalls, laps, stop, npolls, abortPoll,
          source, cmds, nreads, readsAfter, samples, pc, prim, par, loc, offset,
          base, cbase, ncalls, outcome, result, raised, proto, ppc, pstate, env>>

(***************************************************************************)
(* Bounds of the model.                                                    *)
(***************************************************************************)
MaxRecords == 2      \* record calls made on one sink
MaxClock == 5        \* the clock is read while its value stays <= MaxClock
MaxDt == 2           \* ticks between two readings of the clock
MaxStalls == 1       \* readings that may return the previous value again
MaxSize == 3         \* the largest pore size handed to the adaptive pulses

Last(s) == s[Len(s)]
Abs(x) == IF x < 0 THEN -x ELSE x

(***************************************************************************)
(* Sample sinks: Emitter, Recorder and SustainedEmitter.                   *)
(* Unset stands for the np.nan object every record parameter defaults to;  *)
(* NaNValue for a measured float that is numerically NaN (another object); *)
(* None for Python's None.                                                 *)
(* An optional value is a tagged pair: Val(x), or one of the markers.       *)
(***************************************************************************)
Val(x) == [tag |-> "value", v |-> x]
Unset == [tag |-> "unset", v |-> 0]
NaNValue == [tag |-> "nan", v |-> 0]
None == [tag |-> "None", v |-> 0]
Fields == {"time", "voltage", "current", "estimated_diameter", "state"}

RecordArgs ==
    [time : {Unset, Val(1)}, voltage : {Unset, Val(5), Val(6)},
     current : {Unset, Val(1), NaNValue},
     estimated_diameter : {Unset, Val(7)}, state : {Unset, Val(0)}]

InitMem == [f \in Fields |-> Unset]

\* Emitter.record / Recorder.record: the data dict is the arguments as given.
EmitterDataNoState(a) == [a EXCEPT !.state = Unset]
EmitterData(a) == a

\* SustainedEmitter.record: "if x is not np.nan: self.x = x", field by field.
SustainedStoreAlways(old, arg) == arg
SustainedStoreNever(old, arg) == old
SustainedStore(old, arg) == IF arg # Unset THEN arg ELSE old

EmitterRecord(a) ==
    /\ kind = "transient"
    /\ Len(calls) < MaxRecords
    /\ calls' = Append(calls, a)
    /\ emitted' = Append(emitted, EmitterData(a))
    /\ UNCHANGED <<kind, mem>>
    /\ UNCHANGED primVars
    /\ UNCHANGED protoVars

SustainedRecord(a) ==
    /\ kind = "sustained"
    /\ Len(calls) < MaxRecords
    /\ calls' = Append(calls, a)
    /\ mem' = [f \in Fields |-> SustainedStore(mem[f], a[f])]
    /\ emitted' = Append(emitted, mem')
    /\ UNCHANGED kind
    /\ UNCHANGED primVars
    /\ UNCHANGED protoVars

(***************************************************************************)
(* Clock, Timer, Aborter, device: the pieces every primitive uses.         *)
(***************************************************************************)
\* time.perf_counter(): monotonic, so a reading is never below the last one.
Tick(dt) ==
    /\ dt \in env.dts
    /\ now + dt <= env.max_clock
    /\ dt = 0 => stalls < MaxStalls
    /\ now' = now + dt
    /\ stalls' = IF dt = 0 THEN stalls + 1 ELSE stalls

\* Timer.running
TimerRunningNever(l) == FALSE
TimerRunning(l) == Len(l) > 0
\* Timer.start, Timer.lap and Timer.start_or_lap all append the reading t.
TimerPrepend(l, t) == <<t>> \o l
TimerAppend(l, t) == Append(l, t)
\* Timer.check at reading t: (lap time, total time)
TimerCheckSwapped(l, t) == <<t - l[1], t - Last(l)>>
TimerCheck(l, t) == <<t - Last(l), t - l[1]>>

\* Aborter.should_abort: one evaluation of should_stop, which stays true.
PollTwice(ans) ==
    /\ ans \in (IF stop THEN {TRUE} ELSE BOOLEAN)
    /\ stop' = ans
    /\ npolls' = npolls + 2
    /\ abortPoll' = IF ans /\ abortPoll = 0 THEN npolls + 1 ELSE abortPoll
Poll(ans) ==
    /\ ans \in (IF stop THEN {TRUE} ELSE BOOLEAN)
    /\ stop' = ans
    /\ npolls' = npolls + 1
    /\ abortPoll' = IF ans /\ abortPoll = 0 THEN npolls + 1 ELSE abortPoll

\* sourcemeter.source_voltage = v
Command(v) ==
    /\ source' = v
    /\ cmds' = Append(cmds, v)

\* "if aborter.should_abort(): break" and its like: the answer ends the loop.
AbortIgnored(ans) == FALSE
AbortBreaks(ans) == ans

\* k reads of sourcemeter.current, made when should_abort last answered stopped
Read(k, stopped) ==
    /\ nreads' = nreads + k
    /\ readsAfter' = IF stopped THEN readsAfter + k ELSE readsAfter

\* emitter.record(time=, voltage=, current=, state=) on the transient Emitter
Sample(t, v, c, d, s) ==
    [time |-> t, voltage |-> v, current |-> c, estimated_diameter |-> d, state |-> s]
Emit(smp) == samples' = Append(samples, EmitterData(smp))

\* Exact fractions n/d, d # 0.
RatInt(x) == [n |-> x, d |-> 1]
Rat(n, d) == IF d < 0 THEN [n |-> -n, d |-> -d] ELSE [n |-> n, d |-> d]
RatEq(a, b) == a.n * b.d = b.n * a.d
RatLeq(a, b) == a.n * b.d <= b.n * a.d
RatAbsLess(a, b) == Abs(a.n) * Abs(b.d) < Abs(b.n) * Abs(a.d)
RatSign(a) == IF a.n > 0 THEN 1 ELSE IF a.n < 0 THEN -1 ELSE 0

Offsets == {0, 1}

(***************************************************************************)
(* Protocols of sample_config.py: which primitive each call site calls,    *)
(* with the arguments written there (durations scaled down to ticks,       *)
(* sweep counts to SweepNumber).                                           *)
(***************************************************************************)
SweepNumber == 2     \* voltage steps of a protocol's sweep (21, 11 or 5 in sample_config)
CutoffDiameter == 4  \* cutoff_diameter = 20e-9, in units of 5e-9
MaxDiameter == 5     \* estimates range over 0..MaxDiameter, in units of 5e-9
MaxOffset == 8       \* max_offset, in units in which every trial voltage is whole

NoCall == [name |-> "none"]
ProtocolIv(stk, est, rep) ==
    [sweep_start |-> -1, sweep_step |-> 2, sweep_number |-> SweepNumber,
     sweep_duration |-> 1, sweep_discard |-> RatInt(0), stacked |-> stk,
     estimation_state |-> est, reporting_state |-> rep]
ProtocolCall ==
    CASE proto \in {"grow", "cbd_grow"} /\ ppc \in {"init_iv", "loop_iv"} ->
           [name |-> "iv_curve", par |-> ProtocolIv(FALSE, Val(0), Val(1))]
      [] proto = "grow" /\ ppc = "pulse" ->
           [name |-> "square_pulse",
            par |-> [pulse_time |-> 1, pulse_voltage |-> 10, state |-> Val(10)]]
      [] proto = "iv" /\ ppc = "iv" ->
           [name |-> "iv_curve", par |-> ProtocolIv(TRUE, Unset, Unset)]
      [] proto = "cbd_grow" /\ ppc = "pulse" ->
           [name |-> "square_pulse",
            par |-> [pulse_time |-> 1, pulse_voltage |-> 10, state |-> Val(11)]]
      [] proto \in {"cbd_iv", "cbd_grow"} /\ ppc = "ramp" ->
           [name |-> "ramp_cbd",
            par |-> [ramp_start |-> 0, ramp_rate |-> 1, cutoff_current |-> 2,
                     capacitance_delay |-> 1, state |-> Val(20)]]
      [] proto \in {"cbd_iv", "cbd_grow"} /\ ppc = "wait" ->
           [name |-> "wait",
            par |-> [pulse_time |-> 1, pulse_voltage |-> 0, state |-> Val(10)]]
      [] proto = "cbd_iv" /\ ppc = "iv" ->
           [name |-> "iv_curve", par |-> ProtocolIv(FALSE, Val(0), Val(1))]
      [] proto = "offset" /\ ppc = "offset" ->
           [name |-> "pipette_offset",
            par |-> [hold_time |-> 2, wait_time |-> 1, threshold |-> 2,
                     max_offset |-> MaxOffset, iterations |-> 2, state |-> Unset]]
      [] OTHER -> NoCall

\* The arguments of a call: in a free run any of params, in a protocol the
\* call site's.  Enter is what a call does to the bookkeeping of the run.
CallArgs(name, params) ==
    IF proto = "free" THEN params
    ELSE IF ProtocolCall.name = name THEN {ProtocolCall.par} ELSE {}

Enter(name, p) ==
    /\ pc = "idle"
    /\ IF proto = "free" THEN ncalls = 0 ELSE outcome = "none"
    /\ prim' = name
    /\ par' = p
    /\ base' = Len(samples)
    /\ cbase' = Len(cmds)
    /\ ncalls' = ncalls + 1
    /\ npolls' = 0
    /\ abortPoll' = 0
    /\ outcome' = "none"
    /\ result' = None
    /\ raised' = "none"
    /\ UNCHANGED <<stop, offset>>
    /\ UNCHANGED sinkVars
    /\ UNCHANGED protoVars

Return(v) ==
    /\ pc' = "idle"
    /\ outcome' = "returned"
    /\ result' = v
    /\ UNCHANGED raised

Raise(e) ==
    /\ pc' = "failed"
    /\ outcome' = "raised"
    /\ raised' = e
    /\ UNCHANGED result

Running(name, at) == pc = at /\ prim = name

\* What a step inside a primitive leaves alone.
Inside ==
    /\ UNCHANGED <<prim, par, base, cbase, ncalls, offset>>
    /\ UNCHANGED sinkVars
    /\ UNCHANGED protoVars

(***************************************************************************)
(* helpers/pulse_2022_1.py (square_pulse and wait are the same code in     *)
(* helpers/pulse.py and helpers/pulse_2022_0.py).                          *)
(***************************************************************************)
DefaultPulseVoltage == 8
DefaultMinVoltage == 3

SquareParams == [pulse_time : {1, 2}, pulse_voltage : {DefaultPulseVoltage}, state : {Unset}]
WaitParams == [pulse_time : {1, 2}, pulse_voltage : {0}, state : {Unset}]
AdaptiveParams ==
    [pulse_time : {2}, min_time : {1}, pulse_voltage : {DefaultPulseVoltage},
     min_voltage : {DefaultMinVoltage}, initial_size : 0..1, current_size : {0, 1, MaxSize},
     target_size : {0, 2}, state : {Unset}]

\* square_pulse, lines 33-35: timer.start_or_lap(), then the one command.
SquareBegin(name, p) ==
    /\ Enter(name, p)
    /\ \E dt \in env.dts : Tick(dt)
    /\ laps' = TimerAppend(laps, now')
    /\ Command(RatInt(p.pulse_voltage + offset))
    /\ pc' = "loop"
    /\ loc' = [stop_after |-> RatInt(p.pulse_time)]
    /\ UNCHANGED <<nreads, readsAfter, samples>>

square_pulse == \E p \in CallArgs("square_pulse", SquareParams) :
    SquareBegin("square_pulse", p)

\* wait: square_pulse at 0 V for wait_time.
wait == \E p \in CallArgs("wait", WaitParams) :
    SquareBegin("wait", p)

\* The loop of square_pulse and of the adaptive pulses: poll, check the
\* timer, record a sample of the nominal pulse_voltage, test the lap time.
\* loc.stop_after is the time the lap must exceed, loc.floor its floor.
PulseEndsOnTime(lap) == RatLeq(loc.stop_after, RatInt(lap))
PulseEnds(lap) ==
    /\ ~RatLeq(RatInt(lap), loc.stop_after)
    /\ "floor" \in DOMAIN loc => lap > loc.floor

pulse_loop ==
    /\ pc = "loop"
    /\ prim \in {"square_pulse", "wait", "adaptive_amplitude_square_pulse",
                 "adaptive_period_square_pulse", "adaptive_square_pulse"}
    /\ \E ans \in BOOLEAN :
        /\ Poll(ans)
        /\ IF AbortBreaks(ans)
             THEN /\ Return(None)
                  /\ UNCHANGED <<now, stalls, nreads, readsAfter, samples>>
             ELSE \E dt \in env.dts, c \in env.currents :
                  /\ Tick(dt)
                  /\ Read(1, ans)
                  /\ LET t == TimerCheck(laps, now') IN
                     /\ Emit(Sample(t[2], RatInt(par.pulse_voltage), c, Unset, par.state))
                     /\ IF PulseEnds(t[1])
                          THEN Return(None)
                          ELSE UNCHANGED <<pc, outcome, result, raised>>
    /\ UNCHANGED <<laps, source, cmds, loc>>
    /\ Inside

\* adaptive_amplitude_square_pulse, lines 71-84.
AdaptiveVoltage(p) ==
    Rat((p.target_size - p.current_size) * (p.pulse_voltage + offset),
        p.target_size - p.initial_size)
ClampVoltage(v, min_voltage) ==
    IF RatAbsLess(v, RatInt(min_voltage)) THEN RatInt(min_voltage) ELSE v

adaptive_amplitude_square_pulse == \E p \in CallArgs("adaptive_amplitude_square_pulse", AdaptiveParams) :
    /\ Enter("adaptive_amplitude_square_pulse", p)
    /\ \E dt \in env.dts : Tick(dt)
    /\ laps' = TimerAppend(laps, now')
    /\ IF ~(p.target_size > p.initial_size)
         THEN /\ Raise("AssertionError")
              /\ UNCHANGED <<source, cmds, loc>>
         ELSE /\ Command(ClampVoltage(AdaptiveVoltage(p), p.min_voltage))
              /\ pc' = "loop"
              /\ loc' = [stop_after |-> RatInt(p.pulse_time)]
    /\ UNCHANGED <<nreads, readsAfter, samples>>

\* adaptive_period_square_pulse, lines 120-127:
\* progress = current_size / (target_size - initial_size).
adaptive_period_square_pulse == \E p \in CallArgs("adaptive_period_square_pulse", AdaptiveParams) :
    /\ Enter("adaptive_period_square_pulse", p)
    /\ \E dt \in env.dts : Tick(dt)
    /\ laps' = TimerAppend(laps, now')
    /\ IF p.target_size = p.initial_size
         THEN /\ Raise("ZeroDivisionError")
              /\ UNCHANGED <<source, cmds, loc>>
         ELSE /\ Command(RatInt(p.pulse_voltage + offset))
              /\ pc' = "loop"
              /\ loc' = [stop_after |->
                           Rat((p.target_size - p.initial_size - p.current_size)
                                 * p.pulse_time,
                               p.target_size - p.initial_size),
                         floor |-> p.min_time]
    /\ UNCHANGED <<nreads, readsAfter, samples>>

\* adaptive_square_pulse, lines 164-175.
adaptive_square_pulse == \E p \in CallArgs("adaptive_square_pulse", AdaptiveParams) :
    /\ Enter("adaptive_square_pulse", p)
    /\ \E dt \in env.dts : Tick(dt)
    /\ laps' = TimerAppend(laps, now')
    /\ IF p.target_size = p.initial_size
         THEN /\ Raise("ZeroDivisionError")
              /\ UNCHANGED <<source, cmds, loc>>
         ELSE /\ Command(ClampVoltage(AdaptiveVoltage(p), p.min_voltage))
              /\ pc' = "loop"
              /\ loc' = [stop_after |->
                           Rat((p.target_size - p.current_size) * p.pulse_time,
                               p.target_size - p.initial_size),
                         floor |-> p.min_time]
    /\ UNCHANGED <<nreads, readsAfter, samples>>

(***************************************************************************)
(* helpers/cbd.py                                                          *)
(***************************************************************************)
FlatParams ==
    [breakdown_voltage : {8}, cutoff_current : {2}, capacitance_delay : {1, 2},
     state : {Unset}]
RampParams ==
    [ramp_start : {0, 1}, ramp_rate : {0, 1, 2}, cutoff_current : {2},
     capacitance_delay : {2}, state : {Unset}]

\* The cutoff test both breakdown primitives make on a sample, lines 39-40
\* and 72-73.
CutoffNoDelay(lap, current, p) == current >= p.cutoff_current
CutoffTrips(lap, current, p) ==
    lap > p.capacitance_delay /\ current >= p.cutoff_current

\* flat_cbd, lines 23-25.
flat_cbd == \E p \in CallArgs("flat_cbd", FlatParams) :
    /\ Enter("flat_cbd", p)
    /\ \E dt \in env.dts : Tick(dt)
    /\ laps' = TimerAppend(laps, now')
    /\ Command(RatInt(p.breakdown_voltage + offset))
    /\ pc' = "loop"
    /\ loc' = [voltage |-> RatInt(p.breakdown_voltage)]
    /\ UNCHANGED <<nreads, readsAfter, samples>>

\* flat_cbd, lines 27-40.
flat_cbd_loop ==
    /\ Running("flat_cbd", "loop")
    /\ \E ans \in BOOLEAN :
        /\ Poll(ans)
        /\ IF AbortBreaks(ans)
             THEN /\ Return(None)
                  /\ UNCHANGED <<now, stalls, nreads, readsAfter, samples>>
             ELSE \E dt \in env.dts, c \in env.currents :
                  /\ Tick(dt)
                  /\ Read(1, ans)
                  /\ LET t == TimerCheck(laps, now') IN
                     /\ Emit(Sample(t[2], RatInt(par.breakdown_voltage), c, Unset, par.state))
                     /\ IF CutoffTrips(t[1], c, par)
                          THEN Return(None)
                          ELSE UNCHANGED <<pc, outcome, result, raised>>
    /\ UNCHANGED <<laps, source, cmds, loc>>
    /\ Inside

\* ramp_cbd, lines 57-59.
ramp_cbd == \E p \in CallArgs("ramp_cbd", RampParams) :
    /\ Enter("ramp_cbd", p)
    /\ \E dt \in env.dts : Tick(dt)
    /\ laps' = TimerAppend(laps, now')
    /\ Command(RatInt(p.ramp_start + offset))
    /\ pc' = "loop"
    /\ loc' = [bound |-> FALSE, voltage |-> 0]
    /\ UNCHANGED <<nreads, readsAfter, samples>>

\* line 66: voltage = ramp_start + (lap_time * ramp_rate)
RampHeld(p, lap) == p.ramp_start
RampVoltage(p, lap) == p.ramp_start + (lap * p.ramp_rate)

\* ramp_cbd, lines 61-76; the log.info after the loop reads the local
\* variable voltage, which only the loop body assigns.
ramp_cbd_loop ==
    /\ Running("ramp_cbd", "loop")
    /\ \E ans \in BOOLEAN :
        /\ Poll(ans)
        /\ IF AbortBreaks(ans)
             THEN /\ IF loc.bound
                       THEN Return(None)
                       ELSE Raise("UnboundLocalError")
                  /\ UNCHANGED <<now, stalls, nreads, readsAfter, samples,
                                 source, cmds, loc>>
             ELSE \E dt \in env.dts, c \in env.currents :
                  /\ Tick(dt)
                  /\ Read(1, ans)
                  /\ LET t == TimerCheck(laps, now')
                         voltage == RampVoltage(par, t[1]) IN
                     /\ Command(RatInt(voltage + offset))
                     /\ loc' = [bound |-> TRUE, voltage |-> voltage]
                     /\ Emit(Sample(t[2], RatInt(voltage), c, Unset, par.state))
                     /\ IF CutoffTrips(t[1], c, par)
                          THEN Return(None)
                          ELSE UNCHANGED <<pc, outcome, result, raised>>
    /\ UNCHANGED laps
    /\ Inside

(***************************************************************************)
(* helpers/leak_test_2022_0.py                                             *)
(***************************************************************************)
LeakParams ==
    [peak_voltage : {1}, ramp_time : {0, 2}, leak_current : {1}, state : {Unset}]

\* leak_test, lines 26-31.
leak_test == \E p \in CallArgs("leak_test", LeakParams) :
    /\ Enter("leak_test", p)
    /\ IF ~(p.ramp_time > 0)
         THEN /\ Raise("AssertionError")
              /\ UNCHANGED <<now, stalls, laps, source, cmds, loc>>
         ELSE /\ \E dt \in env.dts : Tick(dt)
              /\ laps' = TimerAppend(laps, now')
              /\ Command(RatInt(-p.peak_voltage + offset))
              /\ pc' = "loop"
              /\ loc' = [peak_current |-> 0]
    /\ UNCHANGED <<nreads, readsAfter, samples>>

\* leak_test, lines 33-52.
LeakResult(peak) == IF peak # 0 THEN Val(1) ELSE Val(0)
leak_test_loop ==
    /\ Running("leak_test", "loop")
    /\ \E ans \in BOOLEAN :
        /\ Poll(ans)
        /\ IF AbortBreaks(ans)
             THEN /\ Return(LeakResult(loc.peak_current))
                  /\ UNCHANGED <<now, stalls, nreads, readsAfter, samples, loc>>
             ELSE \E dt \in env.dts, c \in env.currents :
                  /\ Tick(dt)
                  /\ Read(1, ans)
                  /\ LET t == TimerCheck(laps, now')
                         voltage == Rat(-par.peak_voltage * par.ramp_time
                                          + t[1] * 2 * par.peak_voltage,
                                        par.ramp_time)
                         peak == IF Abs(c) > par.leak_current
                                    /\ Abs(c) > Abs(loc.peak_current)
                                   THEN c ELSE loc.peak_current IN
                     /\ Emit(Sample(t[2], voltage, c, Unset, par.state))
                     /\ loc' = [peak_current |-> peak]
                     /\ IF t[1] > par.ramp_time
                          THEN Return(LeakResult(peak))
                          ELSE UNCHANGED <<pc, outcome, result, raised>>
    /\ UNCHANGED <<laps, source, cmds>>
    /\ Inside

(***************************************************************************)
(* utilities/iv.py                                                         *)
(***************************************************************************)
MaxSweeps == 2       \* sweep_number of a free iv_curve call is 1..MaxSweeps

IvParams ==
    [sweep_start : {-1}, sweep_step : {2}, sweep_number : 1..MaxSweeps,
     sweep_duration : {1}, sweep_discard : {RatInt(0), RatInt(1)}, stacked : BOOLEAN,
     estimation_state : {Val(0)}, reporting_state : {Val(1)}]
    \cup [sweep_start : {-1}, sweep_step : {2}, sweep_number : {1},
          sweep_duration : {2}, sweep_discard : {Rat(1, 2)}, stacked : {FALSE},
          estimation_state : {Val(0)}, reporting_state : {Val(1)}]

\* np.arange(sweep_start, sweep_start + sweep_step * sweep_number, sweep_step)[i]
SweepVoltage(p, i) == p.sweep_start + i * p.sweep_step

\* line 87: which samples of a step enter current_array; sweep_discard is a
\* fraction (0.75 at every call site), compared with the lap time as it is.
RetainedIfStacked(lap, p) == p.stacked /\ lap <= p.sweep_duration
Retained(lap, p) == ~RatLeq(RatInt(lap), p.sweep_discard) /\ lap <= p.sweep_duration

\* line 91: the time field of a step's sample
SampleTimeStacked(stk, start_time, lap, total) == start_time + lap
SampleTime(stk, start_time, lap, total) == IF stk THEN start_time + lap ELSE total

\* lines 105-106: the step's voltage and the mean of current_array are
\* stored (here the samples the mean is taken of; the mean of none is NaN).
StoreStep(l, v) ==
    [l EXCEPT !.iv_voltage = Append(@, v),
              !.iv_current = Append(@, l.current_array),
              !.current_array = <<>>,
              !.i = @ + 1]

\* line 116: curve_fit of G * v + b raises with fewer data points than its
\* two parameters (TypeError) and with a NaN among the data (ValueError).
FitLenient(l) == "none"
FitError(l) ==
    IF Len(l.iv_voltage) < 2 THEN "TypeError"
    ELSE IF \E k \in 1..Len(l.iv_current) : l.iv_current[k] = <<>> THEN "ValueError"
    ELSE "none"

\* lines 116-129: the fitted conductance popt[0] and the diameter
\* estimate_diameter derives from it are real-valued functions of the
\* measured currents, whose magnitudes the environment chooses: the estimate
\* is any of Diameters, or (None here) estimate_diameter's
\* "assert conductance > 0" fails.
Diameters == 0..MaxDiameter
Estimates == {Val(d) : d \in Diameters} \cup {None}

\* The same call with the other value of the stacked flag, given the same
\* clock readings, currents and poll answers: loc.twin is what that call
\* has commanded, retained and emitted so far.
Flip(p) == [p EXCEPT !.stacked = ~@]
Twinned(l, w) == [l EXCEPT !.twin = w]
TwinSampled(w, p, start_time, t, c) ==
    [w EXCEPT !.samples = Append(@, EmitterData(
                  Sample(SampleTime(p.stacked, start_time, t[1], t[2]),
                         RatInt(SweepVoltage(p, w.i)), c, Unset, p.estimation_state))),
              !.current_array = IF Retained(t[1], p) THEN Append(@, c) ELSE @]

\* lines 63-67: the parent timer is lapped, or started.
iv_curve == \E p \in CallArgs("iv_curve", IvParams) :
    /\ Enter("iv_curve", p)
    /\ \E dt \in env.dts : Tick(dt)
    /\ laps' = TimerAppend(laps, now')
    /\ loc' = [i |-> 0, iv_voltage |-> <<>>, iv_current |-> <<>>,
               current_array |-> <<>>,
               start_time |-> IF TimerRunning(laps) THEN now' - laps[1] ELSE 0,
               fitted |-> FALSE, seen |-> <<>>,
               twin |-> [i |-> 0, iv_voltage |-> <<>>, iv_current |-> <<>>,
                         current_array |-> <<>>, cmds |-> <<>>, samples |-> <<>>,
                         raised |-> "none"]]
    /\ pc' = "iv_for"
    /\ UNCHANGED <<source, cmds, nreads, readsAfter, samples>>

\* lines 69-78: the head of a voltage step.
iv_step ==
    /\ Running("iv_curve", "iv_for")
    /\ \E dt \in env.dts : Tick(dt)
    /\ laps' = TimerAppend(laps, now')
    /\ \E ans \in BOOLEAN :
        /\ Poll(ans)
        /\ IF AbortBreaks(ans)
             THEN /\ pc' = "iv_end"
                  /\ UNCHANGED <<source, cmds, loc>>
             ELSE /\ Command(RatInt(SweepVoltage(par, loc.i) + offset))
                  /\ loc' = [loc EXCEPT
                       !.current_array = <<>>,
                       !.twin = [@ EXCEPT
                          !.current_array = <<>>,
                          !.cmds = Append(@, RatInt(SweepVoltage(Flip(par), loc.twin.i)
                                                      + offset))]]
                  /\ pc' = "iv_while"
    /\ UNCHANGED <<nreads, readsAfter, samples, outcome, result, raised>>
    /\ Inside

\* lines 80-106: one pass of the step's sampling loop, and what follows the
\* loop when the pass leaves it.
iv_sample ==
    /\ Running("iv_curve", "iv_while")
    /\ \E dt \in env.dts : Tick(dt)
    /\ LET t == TimerCheck(laps, now')
           v == SweepVoltage(par, loc.i)
           vw == SweepVoltage(Flip(par), loc.twin.i)
           after(l) == IF l.i + 1 = par.sweep_number THEN "iv_end" ELSE "iv_for" IN
       IF t[1] > par.sweep_duration
         THEN /\ loc' = Twinned(StoreStep(loc, v), StoreStep(loc.twin, vw))
              /\ pc' = after(loc)
              /\ UNCHANGED <<stop, npolls, abortPoll, nreads, readsAfter, samples>>
         ELSE \E c \in env.currents, ans \in BOOLEAN :
              /\ Read(1, stop)
              /\ Emit(Sample(SampleTime(par.stacked, loc.start_time, t[1], t[2]),
                             RatInt(v), c, Unset, par.estimation_state))
              /\ Poll(ans)
              /\ LET m == [loc EXCEPT !.seen = Append(@, [lap |-> t[1],
                                                      kept |-> Retained(t[1], par)])]
                     l == IF Retained(t[1], par)
                            THEN [m EXCEPT !.current_array = Append(@, c)]
                            ELSE m
                     w == TwinSampled(loc.twin, Flip(par), loc.start_time, t, c) IN
                 IF AbortBreaks(ans)
                   THEN /\ loc' = Twinned(StoreStep(l, v), StoreStep(w, vw))
                        /\ pc' = after(loc)
                   ELSE /\ loc' = Twinned(l, w)
                        /\ pc' = "iv_while"
    /\ UNCHANGED <<laps, source, cmds, outcome, result, raised>>
    /\ Inside

\* lines 116-129: what the fit and estimate_diameter give is real-valued and
\* the device's to decide: any of the environment's estimates, or, where the
\* environment is a pore that grows by one unit a pulse, that size.
EstimateChoices ==
    IF env.rising THEN {Val(pstate.pulses)} ELSE env.estimates
\* line 135: the sample carries pore_diameter * 1e9; a unit here is 5e-9 m.
NoDiameter(est) == Unset
Nanometres(est) == Val(est.v * 5)

\* lines 109-144: the last poll, the fit, the reporting sample, the return.
FitAnyway(ans) == FALSE
FitSkipped(ans) == ans
iv_finish ==
    /\ Running("iv_curve", "iv_end")
    /\ \E ans \in BOOLEAN :
        /\ Poll(ans)
        /\ IF FitSkipped(ans)
             THEN /\ Return(None)
                  /\ UNCHANGED <<now, stalls, nreads, readsAfter, samples, loc>>
             ELSE IF FitError(loc) # "none"
             THEN /\ Raise(FitError(loc))
                  /\ loc' = [loc EXCEPT !.fitted = TRUE,
                                        !.twin.raised = FitError(loc.twin)]
                  /\ UNCHANGED <<now, stalls, nreads, readsAfter, samples>>
             ELSE \E est \in EstimateChoices :
                  IF est = None
                    THEN /\ Raise("AssertionError")
                         /\ loc' = [loc EXCEPT !.fitted = TRUE,
                                               !.twin.raised = FitError(loc.twin)]
                         /\ UNCHANGED <<now, stalls, nreads, readsAfter, samples>>
                    ELSE \E dt \in env.dts, c \in env.currents :
                         /\ Tick(dt)
                         /\ Read(1, ans)
                         /\ Emit(Sample(TimerCheck(laps, now')[2],
                                        RatInt(SweepVoltage(par, par.sweep_number - 1)),
                                        c, Nanometres(est), par.reporting_state))
                         /\ loc' = [loc EXCEPT !.fitted = TRUE,
                                               !.twin.raised = FitError(loc.twin)]
                         /\ Return(est)
    /\ UNCHANGED <<laps, source, cmds>>
    /\ Inside

(***************************************************************************)
(* helpers/pipette_offset_2022_0.py                                        *)
(***************************************************************************)
OffsetParams ==
    [hold_time : {1}, wait_time : {0}, threshold : {1}, max_offset : {MaxOffset},
     iterations : {1}, state : {Unset}]

\* np.mean(current_array) against the threshold and against 0; the mean of
\* no sample is NaN, and every comparison with NaN is false.
Sum(q) == IF q = <<>> THEN 0 ELSE LET S[k \in 0..Len(q)] == IF k = 0 THEN 0 ELSE S[k-1] + q[k] IN S[Len(q)]
WithinStrict(q, thr) == q # <<>> /\ Abs(Sum(q)) < thr * Len(q)
WithinThreshold(q, thr) == q # <<>> /\ Abs(Sum(q)) <= thr * Len(q)
MeanNegative(q) == q # <<>> /\ Sum(q) < 0
MeanPositive(q) == q # <<>> /\ Sum(q) > 0

\* sourcemeter.current: what the environment lets the device read, or, over
\* a linear load I(V) = k * (V - v0), the current at the voltage applied.
DeviceCurrents ==
    IF "linear" \in DOMAIN env
      THEN {env.linear.k * (source.n - env.linear.v0)}
      ELSE env.currents

\* log.info / log.warning of the function and of its Aborter
Logged(l, stopped, levels) ==
    [l EXCEPT !.log = @ \o (IF stopped THEN <<"warning">> ELSE <<>>) \o levels]
\* np.mean(current_array) of a hold at voltage v (lines 58 and 100)
Averaged(l, v) == [l EXCEPT !.held = Append(@, [v |-> v, q |-> l.current_array])]

\* lines 67-70 and 108-111: where the bisection starts, and how far round i
\* moves the trial voltage.
FirstTrial(p) == p.max_offset \div 2
StepNarrow(p, i) == p.max_offset \div (2 ^ (i + 3))
OffsetStep(p, i) == p.max_offset \div (2 ^ (i + 2))

\* lines 32-34
pipette_offset == \E p \in CallArgs("pipette_offset", OffsetParams) :
    /\ Enter("pipette_offset", p)
    /\ \E dt \in env.dts : Tick(dt)
    /\ laps' = TimerAppend(laps, now')
    /\ Command(RatInt(0))
    /\ pc' = "po_base"
    /\ loc' = [current_array |-> <<>>, voltage |-> 0, i |-> 0,
               held |-> <<>>, log |-> <<"info">>]
    /\ UNCHANGED <<nreads, readsAfter, samples>>

\* lines 36-53 (the baseline) and lines 81-98 (a round): the holding loop.
\* The current appended to current_array and the current recorded are two
\* reads of the device.
po_hold ==
    /\ prim = "pipette_offset"
    /\ pc \in {"po_base", "po_hold"}
    /\ \E ans \in BOOLEAN :
        /\ Poll(ans)
        /\ IF AbortBreaks(ans)
             THEN /\ pc' = IF pc = "po_base" THEN "po_decide" ELSE "po_update"
                  /\ loc' = Logged(loc, ans, <<>>)
                  /\ UNCHANGED <<now, stalls, nreads, readsAfter, samples>>
             ELSE \E dt \in env.dts, c1 \in DeviceCurrents, c2 \in DeviceCurrents :
                  /\ Tick(dt)
                  /\ LET t == TimerCheck(laps, now') IN
                     /\ IF t[1] > par.wait_time
                          THEN /\ Read(2, ans)
                               /\ loc' = [loc EXCEPT !.current_array = Append(@, c1)]
                          ELSE /\ Read(1, ans)
                               /\ c1 = c2
                               /\ UNCHANGED loc
                     /\ Emit(Sample(t[2], RatInt(0), c2, Unset, par.state))
                     /\ pc' = IF t[1] > par.hold_time
                                THEN (IF pc = "po_base" THEN "po_decide" ELSE "po_update")
                                ELSE pc
    /\ UNCHANGED <<laps, source, cmds, outcome, result, raised>>
    /\ Inside

\* lines 55-70: after the baseline.
po_decide ==
    /\ Running("pipette_offset", "po_decide")
    /\ \E ans \in BOOLEAN :
        /\ Poll(ans)
        /\ IF AbortBreaks(ans) THEN Return(Val(0))
           ELSE IF WithinThreshold(loc.current_array, par.threshold) THEN Return(Val(0))
           ELSE /\ pc' = "po_round"
                /\ UNCHANGED <<outcome, result, raised>>
        /\ loc' = IF AbortBreaks(ans) THEN Logged(loc, ans, <<>>)
                  ELSE IF WithinThreshold(loc.current_array, par.threshold)
                    THEN Logged(Averaged(loc, 0), ans, <<"info", "info">>)
                  ELSE [Logged(Averaged(loc, 0), ans, <<"info">>)
                          EXCEPT !.voltage = IF MeanPositive(loc.current_array)
                                               THEN -FirstTrial(par)
                                               ELSE FirstTrial(par)]
    /\ UNCHANGED <<now, stalls, laps, source, cmds, nreads, readsAfter, samples>>
    /\ Inside

\* lines 72-79: the head of a round; line 114 when the rounds are used up.
po_round ==
    /\ Running("pipette_offset", "po_round")
    /\ IF loc.i = par.iterations
         THEN /\ Return(Val(loc.voltage))
              /\ loc' = Logged(loc, FALSE, <<"info">>)
              /\ UNCHANGED <<stop, npolls, abortPoll, now, stalls, laps, source,
                             cmds>>
         ELSE \E ans \in BOOLEAN :
              /\ Poll(ans)
              /\ IF AbortBreaks(ans)
                   THEN /\ Return(Val(loc.voltage))
                        /\ loc' = Logged(loc, ans, <<"info">>)
                        /\ UNCHANGED <<now, stalls, laps, source, cmds>>
                   ELSE /\ \E dt \in env.dts : Tick(dt)
                        /\ laps' = TimerAppend(laps, now')
                        /\ Command(RatInt(loc.voltage))
                        /\ loc' = [loc EXCEPT !.current_array = <<>>]
                        /\ pc' = "po_hold"
                        /\ UNCHANGED <<outcome, result, raised>>
    /\ UNCHANGED <<nreads, readsAfter, samples>>
    /\ Inside

\* lines 100-111: the round's average decides: return the trial voltage, or
\* move it by max_offset / 2^(i+2) towards zero current.
po_update ==
    /\ Running("pipette_offset", "po_update")
    /\ IF WithinThreshold(loc.current_array, par.threshold)
         THEN /\ Return(Val(loc.voltage))
              /\ loc' = Logged(Averaged(loc, loc.voltage), FALSE, <<"info", "info">>)
         ELSE /\ pc' = "po_round"
              /\ loc' = [Logged(Averaged(loc, loc.voltage), FALSE, <<"info">>) EXCEPT
                   !.voltage = IF MeanPositive(loc.current_array)
                                 THEN @ - OffsetStep(par, loc.i)
                                 ELSE @ + OffsetStep(par, loc.i),
                   !.i = @ + 1]
              /\ UNCHANGED <<outcome, result, raised>>
    /\ UNCHANGED <<now, stalls, laps, stop, npolls, abortPoll, source, cmds,
                   nreads, readsAfter, samples>>
    /\ Inside

(***************************************************************************)
(* utilities/calculator.py: pure functions of Python numbers.  The values  *)
(* are exact fractions; a diameter or a length involves pi and a square    *)
(* root, and what is kept of it is its sign.  Raising 0.0 to the power -1  *)
(* and dividing a float by 0.0 raise ZeroDivisionError; math.sqrt of a     *)
(* negative number raises ValueError.                                      *)
(***************************************************************************)
CalcParams ==
    [solution_conductivity : -1..1, effective_length : 0..2, conductance : -1..5,
     error_conductance : {0, 1, 2}, channel_conductance : 0..2,
     error_channel : {0, 2, 4}, double_electrode : BOOLEAN]
LengthParams ==
    [solution_conductivity : -1..1, dna_diameter : -1..1, delta_conductance : -1..1]

Failure(e) == [exc |-> e, value |-> None]
Value(v) == [exc |-> "none", value |-> Val(v)]

\* lines 72-74: the asserts.
AssertsStripped(p) == TRUE
DiameterAsserts(p) ==
    /\ p.solution_conductivity > 0
    /\ p.effective_length > 0
    /\ p.conductance > 0

\* lines 78-84
BranchConductance(p) ==
    IF p.double_electrode THEN 4 * p.channel_conductance ELSE 2 * p.channel_conductance
ErrorBranch(p) == Rat(p.error_channel, IF p.double_electrode THEN 4 ELSE 2)

\* line 86 and line 100: (G^-1 - B^-1)^-1 = G * B / (B - G), or G itself.
PoreConductance(p) ==
    IF p.channel_conductance > 0
      THEN Rat(p.conductance * BranchConductance(p), BranchConductance(p) - p.conductance)
      ELSE RatInt(p.conductance)

\* line 86: the outer power is of 0.0 when G = B (G^-1 needs G # 0).
InverseFails(p) ==
    \/ p.conductance = 0
    \/ BranchConductance(p) = p.conductance
\* line 97: error_conductance^-1 and error_branch^-1, then the division by
\* their difference.
ErrorPoreFails(p) ==
    \/ p.error_conductance = 0
    \/ p.error_channel = 0
    \/ RatEq(RatInt(p.error_conductance), ErrorBranch(p))

\* lines 103-109: K is the root of 1 + x / (pi * n) where the pore
\* conductance is n / d and x = 16 * sigma * L * d: negative when x and n
\* differ in sign and |x| > pi * |n|; pi lies between 333/106 and 355/113.
RootOutcomes(p) ==
    LET g == PoreConductance(p)
        x == 16 * p.solution_conductivity * p.effective_length * g.d IN
    IF g.n = 0 THEN {"ZeroDivisionError"}
    ELSE IF RatSign(g) * x >= 0 THEN {"real"}
    ELSE IF Abs(x) * 113 >= 355 * Abs(g.n) THEN {"ValueError"}
    ELSE IF Abs(x) * 106 <= 333 * Abs(g.n) THEN {"real"}
    ELSE {"ValueError", "real"}

\* lines 72-133: what a call does; line 111: the diameter
\* (pore / (2 * sigma)) * (1 + K) has the sign of pore / sigma, K being a
\* root.
DiameterOutcomes(p) ==
    IF ~DiameterAsserts(p) THEN {Failure("AssertionError")}
    ELSE IF p.channel_conductance > 0 /\ InverseFails(p)
      THEN {Failure("ZeroDivisionError")}
    ELSE IF p.channel_conductance > 0 /\ ErrorPoreFails(p)
      THEN {Failure("ZeroDivisionError")}
    ELSE {IF r # "real" THEN Failure(r)
          ELSE IF p.solution_conductivity = 0 THEN Failure("ZeroDivisionError")
          ELSE Value(RatSign(PoreConductance(p))
                       * RatSign(RatInt(p.solution_conductivity)))
            : r \in RootOutcomes(p)}

\* lines 152-154: the asserts; lines 156-160: sigma * pi * d^2 / (4 * dG).
LengthAsserts(p) ==
    /\ p.solution_conductivity > 0
    /\ p.dna_diameter > 0
    /\ p.delta_conductance > 0
LengthOutcome(p) ==
    IF ~LengthAsserts(p) THEN Failure("AssertionError")
    ELSE IF p.delta_conductance = 0 THEN Failure("ZeroDivisionError")
    ELSE Value(RatSign(Rat(p.solution_conductivity * p.dna_diameter * p.dna_diameter,
                           4 * p.delta_conductance)))

\* A call of a pure function: entered and left in one step.
Computes(name, p, o) ==
    /\ pc = "idle"
    /\ ncalls = 0
    /\ prim' = name
    /\ par' = p
    /\ ncalls' = 1
    /\ pc' = IF o.exc = "none" THEN "idle" ELSE "failed"
    /\ outcome' = IF o.exc = "none" THEN "returned" ELSE "raised"
    /\ raised' = o.exc
    /\ result' = o.value
    /\ UNCHANGED <<now, stalls, laps, stop, npolls, abortPoll, source, cmds,
                   nreads, readsAfter, samples, loc, offset, base, cbase>>
    /\ UNCHANGED sinkVars
    /\ UNCHANGED protoVars

estimate_diameter == \E p \in CalcParams : \E o \in DiameterOutcomes(p) :
    Computes("estimate_diameter", p, o)

estimate_length == \E p \in LengthParams :
    Computes("estimate_length", p, LengthOutcome(p))

(***************************************************************************)
(* sample_config.py: the protocols, between their calls of the primitives. *)
(* A protocol's run shares one Timer among its calls; the primitive        *)
(* actions above are its calls (ProtocolCall), the actions here are what   *)
(* it does with what they return.                                          *)
(***************************************************************************)
MaxPulses == 5       \* pulses a growth run is followed for

Pulse == [tag |-> "pulse", v |-> 0]

\* What remains of a step inside a protocol: the primitive's bookkeeping,
\* the clock, the device and the sink stay as they are.
Between ==
    /\ UNCHANGED <<now, stalls, laps, source, cmds, nreads, readsAfter, samples>>
    /\ UNCHANGED <<pc, prim, par, loc, offset, base, cbase, ncalls, result>>
    /\ UNCHANGED <<proto, env>>
    /\ UNCHANGED sinkVars

\* Emitter.progress(initial, target, current); a quotient of denominator 0
\* stands for the non-finite value a division by a float zero gives.
ProgressOfTarget(style, initial, target, current) ==
    Rat(100 * current, target)
Progress(style, initial, target, current) ==
    IF style = "absolute" THEN Rat(100 * current, target)
    ELSE Rat(100 * (current - initial), target - initial)

\* How a run ends: an exception that leaves run() fails it, a run that
\* returns after should_stop has answered true is aborted, any other return
\* completes it.
RunStatus(exc, stopped) ==
    IF exc # "none" THEN "Failed"
    ELSE IF stopped THEN "Aborted" ELSE "Completed"

\* An exception of a primitive is caught nowhere in a protocol.
protocol_raise ==
    /\ proto \in {"grow", "cbd_grow", "iv", "cbd_iv"}
    /\ ppc # "done"
    /\ outcome = "raised"
    /\ ppc' = "done"
    /\ pstate' = [pstate EXCEPT !.status = RunStatus(raised, stop)]
    /\ UNCHANGED <<stop, npolls, abortPoll, outcome, raised>>
    /\ Between

\* IV.run, CBDRampAndIV.run and PipetteOffset.run: one call after the
\* other, what they return unused; CBDRampAndGrowToDimension.run the same
\* up to its first sweep.
NextCall(at) ==
    CASE proto \in {"cbd_iv", "cbd_grow"} /\ at = "ramp" -> "wait"
      [] proto = "cbd_iv" /\ at = "wait" -> "iv"
      [] proto = "cbd_grow" /\ at = "wait" -> "init_iv"
      [] OTHER -> "done"
protocol_step ==
    /\ \/ proto \in {"iv", "cbd_iv", "offset"}
       \/ proto = "cbd_grow" /\ ppc \in {"ramp", "wait"}
    /\ ppc # "done"
    /\ outcome = "returned"
    /\ ppc' = NextCall(ppc)
    /\ outcome' = "none"
    /\ pstate' = IF NextCall(ppc) = "done"
                   THEN [pstate EXCEPT !.status = RunStatus(raised, stop)]
                   ELSE pstate
    /\ UNCHANGED <<stop, npolls, abortPoll, raised>>
    /\ Between

\* SquareWaveGrowToDimension.run, line 114, and
\* CBDRampAndGrowToDimension.run, line 264: init_diameter = iv_curve(...)
grow_init ==
    /\ proto \in {"grow", "cbd_grow"}
    /\ ppc = "init_iv"
    /\ outcome = "returned"
    /\ pstate' = [pstate EXCEPT !.init_diameter = result,
                                !.trace = Append(@, result)]
    /\ ppc' = "loop_iv"
    /\ outcome' = "none"
    /\ UNCHANGED <<stop, npolls, abortPoll, raised>>
    /\ Between

\* lines 154 and 305: "(diameter := iv_curve(...)) < cutoff_diameter"; None < float
\* raises TypeError.
BelowCutoff(diameter) == diameter.v < CutoffDiameter

\* lines 136-159 and 287-310: the loop's test of the sweep's result, the progress, the
\* poll; what is left of the iteration is the pulse.
grow_test ==
    /\ proto \in {"grow", "cbd_grow"}
    /\ ppc = "loop_iv"
    /\ outcome = "returned"
    /\ pstate.pulses < MaxPulses
    /\ LET seen == [pstate EXCEPT !.trace = Append(@, result)] IN
       IF result = None
         THEN /\ raised' = "TypeError"
              /\ outcome' = "raised"
              /\ ppc' = "done"
              /\ pstate' = [seen EXCEPT !.status = RunStatus("TypeError", stop)]
              /\ UNCHANGED <<stop, npolls, abortPoll>>
         ELSE IF ~BelowCutoff(result)
         THEN /\ ppc' = "done"
              /\ pstate' = [seen EXCEPT !.status = RunStatus("none", stop)]
              /\ UNCHANGED <<stop, npolls, abortPoll, outcome, raised>>
         ELSE \E ans \in BOOLEAN :
              LET shown == [seen EXCEPT !.progress =
                               Append(@, Progress(env.progress_style,
                                                  pstate.init_diameter.v,
                                                  CutoffDiameter, result.v))] IN
              /\ Poll(ans)
              /\ UNCHANGED raised
              /\ IF AbortBreaks(ans)
                   THEN /\ ppc' = "done"
                        /\ pstate' = [shown EXCEPT !.status = RunStatus("none", ans)]
                        /\ UNCHANGED outcome
                   ELSE /\ ppc' = "pulse"
                        /\ pstate' = shown
                        /\ outcome' = "none"
    /\ Between

\* lines 161-170 and 312-321: square_pulse has returned; the loop sweeps again.
grow_pulsed ==
    /\ proto \in {"grow", "cbd_grow"}
    /\ ppc = "pulse"
    /\ outcome = "returned"
    /\ pstate' = [pstate EXCEPT !.pulses = @ + 1, !.trace = Append(@, Pulse)]
    /\ ppc' = "loop_iv"
    /\ outcome' = "none"
    /\ UNCHANGED <<stop, npolls, abortPoll, raised>>
    /\ Between

(***************************************************************************)
(* A free run: one call of any primitive, with any arguments, on a new     *)
(* timer.                                                                  *)
(***************************************************************************)
Currents == {0, 2}

InitSink(k) ==
    /\ kind = k
    /\ mem = InitMem
    /\ calls = <<>>
    /\ emitted = <<>>

InitRun(pr, at, ps, e) ==
    /\ now = 0
    /\ stalls = 0
    /\ laps = <<>>
    /\ stop = FALSE
    /\ npolls = 0
    /\ abortPoll = 0
    /\ source = RatInt(0)
    /\ cmds = <<>>
    /\ nreads = 0
    /\ readsAfter = 0
    /\ samples = <<>>
    /\ pc = "idle"
    /\ prim = "none"
    /\ par = [state |-> Unset]
    /\ loc = [i |-> 0]
    /\ offset \in Offsets
    /\ base = 0
    /\ cbase = 0
    /\ ncalls = 0
    /\ outcome = "none"
    /\ result = None
    /\ raised = "none"
    /\ proto = pr
    /\ ppc = at
    /\ pstate = ps
    /\ env = e

NoProtocol ==
    [init_diameter |-> None, pulses |-> 0, trace |-> <<>>,
     progress |-> <<>>, status |-> "Idle"]
FreeEnv ==
    [dts |-> 0..MaxDt, max_clock |-> MaxClock, currents |-> Currents,
     rising |-> FALSE, estimates |-> Estimates, progress_style |-> "absolute"]

InitPrim ==
    /\ InitSink("transient")
    /\ InitRun("free", "none", NoProtocol, FreeEnv)

NextPrim ==
    \/ square_pulse
    \/ wait
    \/ adaptive_amplitude_square_pulse
    \/ adaptive_period_square_pulse
    \/ adaptive_square_pulse
    \/ pulse_loop
    \/ flat_cbd
    \/ flat_cbd_loop
    \/ ramp_cbd
    \/ ramp_cbd_loop
    \/ leak_test
    \/ leak_test_loop
    \/ iv_curve
    \/ iv_step
    \/ iv_sample
    \/ iv_finish
    \/ pipette_offset
    \/ po_hold
    \/ po_decide
    \/ po_round
    \/ po_update

SpecPrim == InitPrim /\ [][NextPrim]_vars

(***************************************************************************)
(* A run of SquareWaveGrowToDimension or of CBDRampAndGrowToDimension: on  *)
(* a clock that advances by one tick a reading, over a pore whose estimate *)
(* is the number of pulses it has had, or over one whose estimates are any *)
(* of GrowEstimates.                                                       *)
(***************************************************************************)
GrowClock == 120     \* ticks a growth run is followed for
GrowEstimates == {Val(0), Val(CutoffDiameter - 1), Val(CutoffDiameter), None}
GrowEnvs ==
    [dts : {{1}}, max_clock : {GrowClock}, currents : {{2}},
     rising : {TRUE}, estimates : {{}}, progress_style : {"absolute", "relative"}]
    \cup
    [dts : {{1}}, max_clock : {GrowClock}, currents : {{2}},
     rising : {FALSE}, estimates : {GrowEstimates}, progress_style : {"absolute"}]

\* utilities/protocol.py, Parameters: the cutoffs a run is configured with
\* (ticks, current units, diameter units); run() is handed them as
\* p.cutoff_time, p.cutoff_current and p.cutoff_diameter.
Parameters ==
    [cutoff_time : {10, GrowClock}, cutoff_current : {1},
     cutoff_diameter : {2, CutoffDiameter}]

InitGrow ==
    /\ InitSink("transient")
    /\ \E e \in GrowEnvs, p \in Parameters,
          pr \in {<<"grow", "init_iv">>, <<"cbd_grow", "ramp">>} :
         InitRun(pr[1], pr[2],
                 [init_diameter |-> None, pulses |-> 0, trace |-> <<>>,
                  progress |-> <<>>, status |-> "Running", p |-> p], e)
    /\ offset = 0

NextGrow ==
    \/ ramp_cbd
    \/ ramp_cbd_loop
    \/ wait
    \/ protocol_step
    \/ iv_curve
    \/ iv_step
    \/ iv_sample
    \/ iv_finish
    \/ square_pulse
    \/ pulse_loop
    \/ grow_init
    \/ grow_test
    \/ grow_pulsed
    \/ protocol_raise

SpecGrow == InitGrow /\ [][NextGrow]_vars

(***************************************************************************)
(* A run of IV (a stacked sweep) or of CBDRampAndIV (ramp, wait, sweep).   *)
(***************************************************************************)
RunClock == 16       \* the last clock reading of such a run
RunEnv ==
    [dts |-> {0, 1, 2}, max_clock |-> RunClock, currents |-> {2},
     rising |-> FALSE, estimates |-> {Val(1), None}, progress_style |-> "absolute"]

InitProtocol ==
    /\ InitSink("transient")
    /\ \E pr \in {<<"iv", "iv">>, <<"cbd_iv", "ramp">>} :
         InitRun(pr[1], pr[2], [NoProtocol EXCEPT !.status = "Running"], RunEnv)
    /\ offset = 0

NextProtocol ==
    \/ ramp_cbd
    \/ ramp_cbd_loop
    \/ wait
    \/ pulse_loop
    \/ iv_curve
    \/ iv_step
    \/ iv_sample
    \/ iv_finish
    \/ protocol_step
    \/ protocol_raise

SpecProtocol == InitProtocol /\ [][NextProtocol]_vars

(***************************************************************************)
(* A run of PipetteOffset: over a linear load I(V) = k * (V - v0), with    *)
(* k > 0 and |v0| < max_offset, or over a device whose current is read as  *)
(* anything of either sign.                                                *)
(***************************************************************************)
OffsetClock == 20    \* the last clock reading of such a run
LinearLoads == [k : {1, 3}, v0 : (1 - MaxOffset)..(MaxOffset - 1)]
OffsetEnvs ==
    {[dts |-> {1, 2}, max_clock |-> OffsetClock, currents |-> {}, rising |-> FALSE,
      estimates |-> {}, progress_style |-> "absolute", linear |-> l] : l \in LinearLoads}
    \cup {[dts |-> {1}, max_clock |-> OffsetClock, currents |-> {-3, 3},
           rising |-> FALSE, estimates |-> {}, progress_style |-> "absolute"]}

InitOffset ==
    /\ InitSink("transient")
    /\ \E e \in OffsetEnvs :
         InitRun("offset", "offset", [NoProtocol EXCEPT !.status = "Running"], e)
    /\ offset = 0

NextOffset ==
    \/ pipette_offset
    \/ po_hold
    \/ po_decide
    \/ po_round
    \/ po_update
    \/ protocol_step

SpecOffset == InitOffset /\ [][NextOffset]_vars

(***************************************************************************)
(* One call of a calculator function, on any arguments.                    *)
(***************************************************************************)
InitCalc ==
    /\ InitSink("transient")
    /\ InitRun("none", "none", NoProtocol, FreeEnv)
    /\ offset = 0

NextCalc ==
    \/ estimate_diameter
    \/ estimate_length

SpecCalc == InitCalc /\ [][NextCalc]_vars

(***************************************************************************)
(* The sinks on their own: any record calls on either sink.                *)
(***************************************************************************)
InitSinks ==
    /\ \E k \in {"transient", "sustained"} : InitSink(k)
    /\ InitRun("none", "none", NoProtocol, FreeEnv)
    /\ offset = 0

NextSinks ==
    \/ \E a \in RecordArgs : EmitterRecord(a)
    \/ \E a \in RecordArgs : SustainedRecord(a)

SpecSinks == InitSinks /\ [][NextSinks]_vars

(***************************************************************************)
(* Properties.                                                             *)
(***************************************************************************)
PollingPrimitives ==
    {"square_pulse", "wait", "adaptive_amplitude_square_pulse",
     "adaptive_period_square_pulse", "adaptive_square_pulse", "flat_cbd",
     "ramp_cbd", "iv_curve", "pipette_offset", "leak_test"}

\* the samples the primitive called last has recorded
PrimSamples == {k \in 1..Len(samples) : k > base}
\* the commands it has given
PrimCmds == {k \in 1..Len(cmds) : k > cbase}
\* the in-primitive elapsed time of sample k of a primitive that laps the
\* timer once, on entry: its total time less the total time of that lap
LapOf(k) == samples[k].time - (Last(laps) - laps[1])

\* C1: a primitive whose cancellation predicate answers false at its first
\* poll and true from its second poll on records at most 2 samples, reads
\* the device no more once the predicate has answered true, raises nothing
\* and has returned by its fourth poll at the latest.
C1_AbortAtSecondPoll ==
    (prim \in PollingPrimitives /\ abortPoll = 2) =>
        /\ Cardinality(PrimSamples) <= 2
        /\ readsAfter = 0
        /\ outcome # "raised"
        /\ npolls <= 4
        /\ npolls = 4 => (pc = "idle" /\ outcome = "returned")

C1_Witness ==
    /\ prim = "iv_curve"
    /\ abortPoll = 2
    /\ outcome = "returned"
    /\ Cardinality(PrimSamples) = 1
    /\ nreads = 1

\* C4: once a poll of iv_curve has answered true, iv_curve attempts no fit,
\* records no sample that carries a diameter, raises nothing, and what it
\* returns is None, which no computed diameter equals.
C4_AbortedSweepHasNoFit ==
    (prim = "iv_curve" /\ stop) =>
        /\ ~loc.fitted
        /\ \A k \in PrimSamples : samples[k].estimated_diameter = Unset
        /\ outcome # "raised"
        /\ outcome = "returned" => result = None
        /\ \A d \in Diameters : Val(d) # None

C4_Witness ==
    /\ prim = "iv_curve"
    /\ abortPoll > 2
    /\ outcome = "returned"
    /\ result = None
    /\ Len(loc.iv_voltage) = 2

\* C5: adaptive_amplitude_square_pulse commands (1 - progress) times the
\* requested voltage, or the minimum voltage; for current_size >= target_size
\* the commanded voltage is no larger in magnitude than the minimum voltage
\* and never of the sign opposite to the requested pulse voltage.
C5_AdaptiveAmplitudeClamped ==
    (prim = "adaptive_amplitude_square_pulse" /\ PrimCmds # {}) =>
        LET v == cmds[cbase + 1]
            scaled == Rat((par.target_size - par.current_size)
                            * (par.pulse_voltage + offset),
                          par.target_size - par.initial_size) IN
        /\ par.target_size > par.initial_size
        /\ RatEq(v, scaled) \/ RatEq(v, RatInt(par.min_voltage))
        /\ par.current_size >= par.target_size =>
             /\ ~RatAbsLess(RatInt(par.min_voltage), v)
             /\ RatSign(v) * par.pulse_voltage >= 0

\* C10: flat_cbd commands breakdown_voltage + pipette_offset, once; no
\* sample before its last one is both later than capacitance_delay and at or
\* above cutoff_current; while it runs its last sample is not such a sample
\* either, and when it has returned without cancellation its last sample is.
C10_FlatCbdStopsAtFirstTrip ==
    prim = "flat_cbd" =>
        LET trips(k) == /\ LapOf(k) > par.capacitance_delay
                        /\ samples[k].current >= par.cutoff_current IN
        /\ Cardinality(PrimCmds) = 1
        /\ cmds[cbase + 1] = RatInt(par.breakdown_voltage + offset)
        /\ \A k \in PrimSamples : k < Len(samples) => ~trips(k)
        /\ (pc = "loop" /\ PrimSamples # {}) => ~trips(Len(samples))
        /\ (outcome = "returned" /\ ~stop) =>
               (PrimSamples # {} /\ trips(Len(samples)))

C10_Witness ==
    /\ prim = "flat_cbd"
    /\ outcome = "returned"
    /\ ~stop
    /\ Cardinality(PrimSamples) >= 3
    /\ \E k \in PrimSamples :
         /\ k < Len(samples)
         /\ samples[k].current >= par.cutoff_current
         /\ LapOf(k) <= par.capacitance_delay
         /\ LapOf(k) > 0

\* a record call supplies a field when its argument is not the np.nan default
Supplied(j, f) == calls[j][f] # Unset
SuppliedBy(k, f) == {j \in 1..k : Supplied(j, f)}
MaxOf(S) == CHOOSE x \in S : \A y \in S : y <= x

\* C6: every field of every sample the sustained sink emits equals the value
\* given for that field by the latest record call, up to and including the
\* one that emitted the sample, that supplied the field.
C6_SustainedCarriesLatest ==
    kind = "sustained" =>
        \A k \in 1..Len(emitted) : \A f \in Fields :
            SuppliedBy(k, f) # {} =>
                emitted[k][f] = calls[MaxOf(SuppliedBy(k, f))][f]

C6_Witness ==
    /\ kind = "sustained"
    /\ Len(emitted) = 2
    /\ calls[1] = [InitMem EXCEPT !.voltage = Val(5)]
    /\ calls[2] = [InitMem EXCEPT !.current = Val(1)]
    /\ emitted[2].voltage = Val(5)
    /\ emitted[2].current = Val(1)

\* C7: the transient sink emits every field its record call did not supply
\* as unset, whatever earlier calls supplied, and every supplied field as
\* given; it stores nothing.
C7_TransientEmitsTheCall ==
    kind = "transient" =>
        /\ \A k \in 1..Len(emitted) : \A f \in Fields :
              IF Supplied(k, f) THEN emitted[k][f] = calls[k][f]
              ELSE emitted[k][f] = Unset
        /\ mem = InitMem

C7_Witness ==
    /\ kind = "transient"
    /\ Len(emitted) = 2
    /\ calls[1].voltage = Val(5)
    /\ calls[2].voltage = Unset
    /\ calls[2].current = Val(1)
    /\ emitted[2].voltage = Unset
    /\ emitted[2].current = Val(1)

IsPulse(k) == pstate.trace[k] = Pulse
ReachedCutoff(k) ==
    pstate.trace[k].tag = "value" /\ pstate.trace[k].v >= CutoffDiameter
BelowCutoffAt(k) ==
    pstate.trace[k].tag = "value" /\ pstate.trace[k].v < CutoffDiameter

\* C2: in a growth run every pulse comes directly after a sweep whose
\* estimate is below cutoff_diameter, no pulse comes after any sweep whose
\* estimate was cutoff_diameter or more, and over a pore whose estimate
\* rises by one unit a pulse from 0 a run that is not cancelled ends
\* Completed after exactly CutoffDiameter (20e-9 / 5e-9 = 4) pulses.
C2_CutoffPrecedesEveryPulse ==
    proto = "grow" =>
        /\ \A k \in 1..Len(pstate.trace) : IsPulse(k) =>
              /\ k > 1
              /\ BelowCutoffAt(k - 1)
              /\ \A j \in 1..(k - 1) : ~ReachedCutoff(j)
        /\ (env.rising /\ ppc = "done" /\ ~stop) =>
              /\ pstate.pulses = CutoffDiameter
              /\ pstate.status = "Completed"

\* C3: a growth run in which should_stop has answered true ends Aborted,
\* with no exception raised.
C3_CancelledGrowthEndsAborted ==
    (proto = "grow" /\ ppc = "done" /\ stop) =>
        /\ pstate.status = "Aborted"
        /\ raised = "none"

\* C9 as claimed: in a run of a protocol, stacked or not, on a clock no
\* reading of which repeats the one before, the time field of every sample
\* is above that of the sample before it.
C9_TimesStrictlyIncrease ==
    (proto \in {"iv", "cbd_iv"} /\ stalls = 0) =>
        \A k \in 2..Len(samples) : samples[k - 1].time < samples[k].time

\* C9 as amended: in a run of CBDRampAndIV, whose sweep is not stacked, the
\* time field of a sample is never below that of the sample before it, and
\* is above it when no clock reading of the run repeated the one before.
C9_UnstackedTimesIncrease ==
    proto = "cbd_iv" =>
        \A k \in 2..Len(samples) :
            /\ samples[k - 1].time <= samples[k].time
            /\ stalls = 0 => samples[k - 1].time < samples[k].time

C9_Witness ==
    /\ proto = "cbd_iv"
    /\ ppc = "done"
    /\ stalls = 0
    /\ pstate.status = "Completed"
    /\ \A st \in {20, 10, 0, 1} :
          \E k \in 1..Len(samples) : samples[k].state = Val(st)
    /\ \E k \in 2..Len(samples) :
          /\ samples[k - 1].state = Val(0)
          /\ samples[k].state = Val(0)
          /\ samples[k - 1].voltage # samples[k].voltage

\* C11: ramp_cbd first commands ramp_start + pipette_offset and then, with
\* every sample, ramp_start + elapsed * ramp_rate + pipette_offset, elapsed
\* being the time since the ramp began; the commanded voltages never
\* decrease (ramp_rate >= 0); no sample before the last is both later than
\* capacitance_delay and at or above cutoff_current, the last is not either
\* while the ramp runs, and is when the ramp has returned uncancelled.
C11_RampIsLinearAndGated ==
    prim = "ramp_cbd" =>
        LET n == Cardinality(PrimSamples)
            ramp(k) == par.ramp_start + LapOf(k) * par.ramp_rate
            trips(k) == /\ LapOf(k) > par.capacitance_delay
                        /\ samples[k].current >= par.cutoff_current IN
        /\ Cardinality(PrimCmds) = n + 1
        /\ cmds[cbase + 1] = RatInt(par.ramp_start + offset)
        /\ \A j \in 1..n :
              /\ cmds[cbase + 1 + j] = RatInt(ramp(base + j) + offset)
              /\ samples[base + j].voltage = RatInt(ramp(base + j))
              /\ RatLeq(cmds[cbase + j], cmds[cbase + 1 + j])
        /\ \A k \in PrimSamples : k < Len(samples) => ~trips(k)
        /\ (pc = "loop" /\ n > 0) => ~trips(Len(samples))
        /\ (outcome = "returned" /\ ~stop) => (n > 0 /\ trips(Len(samples)))

C11_Witness ==
    /\ prim = "ramp_cbd"
    /\ outcome = "returned"
    /\ ~stop
    /\ par.ramp_rate = 2
    /\ Cardinality(PrimSamples) >= 3
    /\ \A j \in 1..Cardinality(PrimSamples) :
          ~RatEq(cmds[cbase + j], cmds[cbase + 1 + j])
    /\ \E k \in PrimSamples :
         /\ k < Len(samples)
         /\ samples[k].current >= par.cutoff_current
         /\ LapOf(k) <= par.capacitance_delay

\* A finished, uncancelled pipette_offset over a linear load, and how far
\* what it returned lies from the load's zero crossing v0.
OverLinearLoad ==
    /\ prim = "pipette_offset"
    /\ outcome = "returned"
    /\ ~stop
    /\ "linear" \in DOMAIN env
OffsetError == Abs(result.v - env.linear.v0)

\* C12 as stated: over a linear load I(V) = k * (V - v0) with k > 0 and
\* |v0| < max_offset, pipette_offset returns a voltage closer to v0 than
\* max_offset / 2^iterations.
C12_ConvergesToZeroCrossing ==
    OverLinearLoad => OffsetError * (2 ^ par.iterations) < par.max_offset

\* C12, amended: over such a load an uncancelled pipette_offset returns a
\* voltage closer to v0 than max_offset / 2^iterations when it used up its
\* rounds, and otherwise a voltage at which the load's current is within the
\* threshold, |k * (V - v0)| <= threshold, however far from v0 that is.
C12_ConvergesOrWithinThreshold ==
    OverLinearLoad =>
        IF loc.i = par.iterations
          THEN OffsetError * (2 ^ par.iterations) < par.max_offset
          ELSE env.linear.k * OffsetError <= par.threshold

C12_Witness ==
    /\ OverLinearLoad
    /\ loc.i = par.iterations
    /\ result.v # 0
    /\ env.linear.v0 < 0

\* C13: pipette_offset commands 0 V and then one trial voltage per round, at
\* most `iterations` rounds; a round follows a hold only when the hold's
\* average is beyond the threshold; the first trial is -max_offset/2 after a
\* positive baseline and +max_offset/2 otherwise; round i's average moves the
\* trial by exactly max_offset/2^(i+2), down when positive and up otherwise;
\* and a round whose average is within the threshold returns its trial
\* voltage unchanged.
C13_BisectionRounds ==
    prim = "pipette_offset" =>
        LET h == loc.held
            moved(q) == IF MeanPositive(q) THEN -par.max_offset ELSE par.max_offset IN
        /\ Len(h) <= 1 + par.iterations
        /\ \A j \in 1..Len(h) : cmds[cbase + j] = RatInt(h[j].v)
        /\ Cardinality(PrimCmds) \in {Len(h), Len(h) + 1}
        /\ Len(h) >= 1 => h[1].v = 0
        /\ \A j \in 1..(Len(h) - 1) : ~WithinThreshold(h[j].q, par.threshold)
        /\ Len(h) >= 2 => h[2].v * 2 = moved(h[1].q)
        /\ \A i \in 0..(Len(h) - 3) :
              (h[i + 3].v - h[i + 2].v) * (2 ^ (i + 2)) = moved(h[i + 2].q)
        /\ (Len(h) >= 2 /\ (pc = "po_round" \/ outcome = "returned")) =>
              IF WithinThreshold(h[Len(h)].q, par.threshold)
                THEN /\ outcome = "returned"
                     /\ result = Val(h[Len(h)].v)
                ELSE /\ loc.i = Len(h) - 1
                     /\ (loc.voltage - h[Len(h)].v) * (2 ^ (loc.i + 1))
                           = moved(h[Len(h)].q)

C13_Witness ==
    /\ prim = "pipette_offset"
    /\ outcome = "returned"
    /\ ~stop
    /\ Len(loc.held) = 3
    /\ result = Val(loc.held[3].v)
    /\ loc.held[2].v = FirstTrial(par)
    /\ loc.held[3].v < loc.held[2].v
    /\ WithinThreshold(loc.held[3].q, par.threshold)

\* C14: the baseline is the currents read at 0 V once the lap exceeds
\* wait_time; when its mean is within the threshold, pipette_offset returns 0
\* having held nothing but 0 V: every voltage it commanded is 0.
C14_BaselineWithinThreshold ==
    (prim = "pipette_offset" /\ Len(loc.held) >= 1) =>
        LET q == loc.held[1].q IN
        /\ loc.held[1].v = 0
        /\ (q # <<>> /\ Abs(Sum(q)) <= par.threshold * Len(q)) =>
              /\ result = Val(0)
              /\ Len(loc.held) = 1
              /\ Len(q) = Cardinality({k \in PrimSamples : LapOf(k) > par.wait_time})
              /\ \A c \in PrimCmds : cmds[c] = RatInt(0)
              /\ pc = "idle"

C14_Witness ==
    /\ prim = "pipette_offset"
    /\ outcome = "returned"
    /\ ~stop
    /\ Len(loc.held) = 1
    /\ Len(loc.held[1].q) = 2
    /\ Abs(Sum(loc.held[1].q)) = par.threshold * 2
    /\ result = Val(0)

\* C15: when every round has been held without an average within the
\* threshold, pipette_offset returns, raising nothing, one of the voltages it
\* held and measured, and logs a warning.
C15_ExhaustedReturnsHeldWithWarning ==
    (prim = "pipette_offset" /\ outcome = "returned" /\ ~stop
       /\ loc.i = par.iterations) =>
        /\ raised = "none"
        /\ \E j \in 1..Len(loc.held) : result = Val(loc.held[j].v)
        /\ \E j \in 1..Len(loc.log) : loc.log[j] = "warning"

\* C16 as stated: for solution conductivity > 0, effective length > 0,
\* conductance > 0 and channel conductance >= 0, either double_electrode
\* setting and any non-negative errors, estimate_diameter returns a positive
\* diameter.
C16_DiameterPositive ==
    (/\ prim = "estimate_diameter"
     /\ par.solution_conductivity > 0
     /\ par.effective_length > 0
     /\ par.conductance > 0
     /\ par.channel_conductance >= 0) =>
        /\ outcome = "returned"
        /\ result = Val(1)

\* C17: estimate_diameter with a solution conductivity, effective length or
\* conductance that is not positive, and estimate_length with a solution
\* conductivity, DNA diameter or conductance shift that is not positive,
\* raise AssertionError and return nothing; nothing else makes them raise
\* AssertionError.
C17_PreconditionsAsserted ==
    /\ prim = "estimate_diameter" =>
          ((par.solution_conductivity <= 0 \/ par.effective_length <= 0
              \/ par.conductance <= 0)
             <=> (outcome = "raised" /\ raised = "AssertionError" /\ result = None))
    /\ prim = "estimate_length" =>
          ((par.solution_conductivity <= 0 \/ par.dna_diameter <= 0
              \/ par.delta_conductance <= 0)
             <=> (outcome = "raised" /\ raised = "AssertionError" /\ result = None))

C17_Witness ==
    /\ prim = "estimate_diameter"
    /\ par.solution_conductivity > 0
    /\ par.effective_length > 0
    /\ par.conductance = 0
    /\ par.channel_conductance > 0
    /\ raised = "AssertionError"

\* C18 as stated: an adaptive pulse of any variant called with
\* target_size <= initial_size raises before it commands a voltage and before
\* it emits a sample.
C18_InvertedSizesFailFast ==
    (/\ prim \in {"adaptive_amplitude_square_pulse", "adaptive_period_square_pulse",
                  "adaptive_square_pulse"}
     /\ par.target_size <= par.initial_size) =>
        /\ outcome = "raised"
        /\ PrimCmds = {}
        /\ PrimSamples = {}

\* C19 as stated: adaptive_period_square_pulse commands pulse_voltage plus
\* the pipette offset once and, when not cancelled, ends at the first sample
\* whose lap time exceeds both min_time and (1 - progress) * pulse_time, with
\* progress = (current_size - initial_size) / (target_size - initial_size).
C19_PeriodScalesWithProgress ==
    (/\ prim = "adaptive_period_square_pulse"
     /\ outcome = "returned"
     /\ ~stop
     /\ par.initial_size <= par.current_size
     /\ par.current_size <= par.target_size
     /\ par.initial_size < par.target_size) =>
        LET T == Rat((par.target_size - par.current_size) * par.pulse_time,
                     par.target_size - par.initial_size)
            ends(k) == /\ ~RatLeq(RatInt(LapOf(k)), T)
                       /\ LapOf(k) > par.min_time IN
        /\ \A c \in PrimCmds : cmds[c] = RatInt(par.pulse_voltage + offset)
        /\ PrimSamples # {}
        /\ \A k \in PrimSamples : ends(k) <=> k = Len(samples)

\* C20 as stated: a sample of a voltage step enters the step's mean current
\* if and only if its lap time exceeds sweep_discard * sweep_duration and
\* does not exceed sweep_duration (for a discard fraction below 1).
C20_DiscardIsFractionOfDuration ==
    (prim = "iv_curve" /\ par.sweep_discard.n < par.sweep_discard.d) =>
        \A k \in 1..Len(loc.seen) :
            loc.seen[k].kept <=>
                /\ loc.seen[k].lap * par.sweep_discard.d
                      > par.sweep_discard.n * par.sweep_duration
                /\ loc.seen[k].lap <= par.sweep_duration

\* The voltage steps of a finished iv_curve whose mean current is of at
\* least one retained sample.
IvFinished == prim = "iv_curve" /\ outcome \in {"returned", "raised"}
SampledLevels == {k \in 1..Len(loc.iv_current) : loc.iv_current[k] # <<>>}

LegacyClock == 13    \* ticks a square-wave run is followed for

LegacyProtocols == {"sq_grow", "sq_symmetrize"}
LegacyParams ==
    [hold_time : {1, 2}, pulse_time : {1}, measurement_voltage : {1},
     condition_voltage : {6}, target_diameter : {0, 3},
     target_rectification : {1}]
LegacyLocals(p) ==
    [params |-> p, status |-> "Running", cur_pore |-> 0, start_pore |-> 0,
     trace |-> <<>>, ratios |-> <<>>, progress |-> <<>>,
     total |-> 0, t_prev |-> 0, t_start |-> 0, t_neg_start |-> 0,
     t_passed |-> 0, current_array |-> <<>>,
     pos_currents |-> <<>>, neg_currents |-> <<>>]

\* What a step of the procedure leaves alone: the Timer and the primitives
\* of the package are not used by it.
LegacyKeeps ==
    /\ UNCHANGED <<laps, pc, prim, par, loc, offset, base, cbase, ncalls>>
    /\ UNCHANGED <<outcome, result, proto, env>>
    /\ UNCHANGED sinkVars

\* estimate_pore, lines 563-567, called at line 504 or 543 with t_prev 0
\* and at line 524 with what sq_condition_pore returned (lines 659-661):
\* np.mean(pos) / abs(np.mean(neg)), which numpy makes a non-finite value
\* (denominator 0 here) where the mean is 0.
estimate_pore ==
    /\ proto \in LegacyProtocols
    /\ ppc \in {"start", "pulsed"}
    /\ \E dt \in env.dts : Tick(dt)
    /\ Command(RatInt(pstate.params.measurement_voltage + offset))
    /\ pstate' = [pstate EXCEPT
           !.ratios = IF ppc = "pulsed"
                        THEN Append(@, Rat(Sum(pstate.pos_currents)
                                             * Len(pstate.neg_currents),
                                           Abs(Sum(pstate.neg_currents))
                                             * Len(pstate.pos_currents)))
                        ELSE @,
           !.t_prev = pstate.total,
           !.t_start = now',
           !.t_passed = 0,
           !.current_array = <<>>]
    /\ ppc' = IF 0 < pstate.params.hold_time THEN "hold" ELSE "held"
    /\ UNCHANGED <<stop, npolls, abortPoll, nreads, readsAfter, samples, raised>>
    /\ LegacyKeeps

\* lines 568-586: one pass of "while t_passed < hold time".
estimate_pore_loop ==
    /\ proto \in LegacyProtocols
    /\ ppc = "hold"
    /\ \E dt \in env.dts, c \in env.currents, ans \in BOOLEAN :
        LET t == now + dt - pstate.t_start IN
        /\ Tick(dt)
        /\ Read(1, stop)
        /\ samples' = Append(samples,
                             Sample(t + pstate.t_prev,
                                    RatInt(pstate.params.measurement_voltage), c,
                                    Unset, Unset))
        /\ Poll(ans)
        /\ pstate' = [pstate EXCEPT
               !.t_passed = t,
               !.total = t + pstate.t_prev,
               !.current_array = IF t > pstate.params.hold_time - 1
                                   THEN Append(@, c) ELSE @]
        /\ ppc' = IF ans \/ ~(t < pstate.params.hold_time) THEN "held" ELSE "hold"
    /\ UNCHANGED <<source, cmds, raised>>
    /\ LegacyKeeps

\* estimate_pore, lines 588-609: the mean of the final second, the estimate
\* (estimate_diameter asserts conductance > 0, and the mean of no sample is
\* NaN), "except: pore_diameter = 0."; then execute: the progress, the
\* loop's test and, in the loop, the call of sq_condition_pore: with its
\* three arguments at line 523 (lines 612-625 follow), with one at line 547,
\* which is a TypeError.  The progress of lines 506-514 and 525-533 divides
\* Python floats when the estimate failed (cur_pore = 0.), and a Python
\* float divided by 0.0 raises ZeroDivisionError; a numpy estimate gives a
\* non-finite value instead.  The symmetrize loop starts from
\* rect_ratio = 100 (line 544).
square_wave_loop ==
    /\ proto \in LegacyProtocols
    /\ ppc = "held"
    /\ \E est \in (IF Sum(pstate.current_array) > 0
                     THEN env.estimates ELSE {None}) :
        LET cur == IF est = None THEN 0 ELSE est.v
            start == IF pstate.trace = <<>> THEN cur ELSE pstate.start_pore
            seen == [pstate EXCEPT !.cur_pore = cur,
                                   !.start_pore = start,
                                   !.trace = Append(@, est)]
            target == pstate.params.target_diameter
            shown == IF proto # "sq_grow" THEN seen
                     ELSE [seen EXCEPT !.progress = Append(@,
                             IF env.progress_style = "physical"
                               THEN RatInt(IF cur < 100 THEN cur ELSE 100)
                               ELSE Progress(env.progress_style, start,
                                             target, cur))]
            fails == /\ proto = "sq_grow"
                     /\ env.progress_style = "absolute"
                     /\ est = None
                     /\ target = 0
            continues == /\ cur < target
                         /\ proto = "sq_symmetrize" =>
                                100 > pstate.params.target_rectification
        IN
        IF fails
          THEN /\ raised' = "ZeroDivisionError"
               /\ ppc' = "done"
               /\ pstate' = [seen EXCEPT
                                !.status = RunStatus("ZeroDivisionError", stop)]
               /\ UNCHANGED <<now, stalls, source, cmds>>
          ELSE IF ~continues
          THEN /\ ppc' = "done"
               /\ pstate' = [shown EXCEPT !.status = RunStatus("none", stop)]
               /\ UNCHANGED <<now, stalls, source, cmds, raised>>
          ELSE IF proto = "sq_symmetrize"
          THEN /\ raised' = "TypeError"
               /\ ppc' = "done"
               /\ pstate' = [shown EXCEPT
                                !.status = RunStatus("TypeError", stop)]
               /\ UNCHANGED <<now, stalls, source, cmds>>
          ELSE /\ \E dt \in env.dts : Tick(dt)
               /\ Command(RatInt(pstate.params.condition_voltage + offset))
               /\ ppc' = "pos"
               /\ pstate' = [shown EXCEPT !.t_prev = pstate.total,
                                          !.t_start = now',
                                          !.t_passed = 0,
                                          !.pos_currents = <<>>,
                                          !.neg_currents = <<>>]
               /\ UNCHANGED raised
    /\ UNCHANGED <<stop, npolls, abortPoll, nreads, readsAfter, samples>>
    /\ LegacyKeeps

\* sq_condition_pore, lines 627-637 and 645-657: one pass of the positive
\* or of the negative half's "while ... < pulse_time".
sq_condition_pore_loop ==
    /\ proto \in LegacyProtocols
    /\ ppc \in {"pos", "neg"}
    /\ \E dt \in env.dts, c \in env.currents, ans \in BOOLEAN :
        LET t == now + dt - pstate.t_start
            half == IF ppc = "pos" THEN t ELSE now + dt - pstate.t_neg_start
            voltage == IF ppc = "pos" THEN pstate.params.condition_voltage
                       ELSE -pstate.params.condition_voltage
        IN
        /\ Tick(dt)
        /\ Read(1, stop)
        /\ samples' = Append(samples,
                             Sample(pstate.t_prev + t, RatInt(voltage), c,
                                    Unset, Unset))
        /\ Poll(ans)
        /\ pstate' = [pstate EXCEPT
               !.t_passed = t,
               !.total = t + pstate.t_prev,
               !.pos_currents = IF ppc = "pos" THEN Append(@, c) ELSE @,
               !.neg_currents = IF ppc = "neg" THEN Append(@, c) ELSE @]
        /\ ppc' = IF ans \/ ~(half < pstate.params.pulse_time)
                    THEN (IF ppc = "pos" THEN "reverse" ELSE "pulsed")
                    ELSE ppc
    /\ UNCHANGED <<source, cmds, raised>>
    /\ LegacyKeeps

\* sq_condition_pore, lines 641-643: the negative half begins.
sq_condition_pore_reverse ==
    /\ proto \in LegacyProtocols
    /\ ppc = "reverse"
    /\ \E dt \in env.dts : Tick(dt)
    /\ Command(RatInt(-pstate.params.condition_voltage + offset))
    /\ pstate' = [pstate EXCEPT !.t_neg_start = now']
    /\ ppc' = "neg"
    /\ UNCHANGED <<stop, npolls, abortPoll, nreads, readsAfter, samples, raised>>
    /\ LegacyKeeps

(***************************************************************************)
(* A run of "square wave grow to dimension" or "square wave symmetrize".   *)
(***************************************************************************)
InitLegacy ==
    /\ InitSink("transient")
    /\ \E pr \in LegacyProtocols, p \in LegacyParams,
          style \in {"absolute", "physical"} :
         InitRun(pr, "start", LegacyLocals(p),
                 [dts |-> {1}, max_clock |-> LegacyClock,
                  currents |-> {-1, 2}, rising |-> FALSE,
                  estimates |-> {Val(1), Val(3)}, progress_style |-> style])

NextLegacy ==
    \/ estimate_pore
    \/ estimate_pore_loop
    \/ square_wave_loop
    \/ sq_condition_pore_loop
    \/ sq_condition_pore_reverse

SpecLegacy == InitLegacy /\ [][NextLegacy]_vars

(***************************************************************************)
(* C23: the symmetrize loop runs a square-wave pass while the diameter is  *)
(* below the maximum and the rectification ratio above the target, so a    *)
(* run that has ended has ended normally, at a diameter that reached the   *)
(* maximum or at a ratio that reached the target.                          *)
(***************************************************************************)
C23_SymmetrizeEndsAtTarget ==
    (proto = "sq_symmetrize" /\ ppc = "done") =>
        /\ raised = "none"
        /\ \/ pstate.cur_pore >= pstate.params.target_diameter
           \/ RatLeq(IF pstate.ratios = <<>> THEN RatInt(100)
                     ELSE Last(pstate.ratios),
                     RatInt(pstate.params.target_rectification))

(***************************************************************************)
(* C24: a re-estimation that yields no diameter (estimate_diameter fails   *)
(* on a conductance that is not positive) leaves the previous diameter in  *)
(* force and does not by itself fail the run: a growth run that was never  *)
(* cancelled and whose estimate failed has not ended as Failed.            *)
(***************************************************************************)
C24_FailedEstimateKeepsRunAlive ==
    (proto = "grow" /\ ~stop /\ pstate.pulses >= 1 /\ raised = "AssertionError")
        => pstate.status # "Failed"
\* The square-wave procedure's form of the same: after an estimate that
\* failed the diameter the loop tests is the one before it.
C24_LegacyKeepsPreviousDiameter ==
    (proto = "sq_grow" /\ Len(pstate.trace) >= 2
        /\ Last(pstate.trace) = None
        /\ pstate.trace[Len(pstate.trace) - 1] # None)
        => pstate.cur_pore = pstate.trace[Len(pstate.trace) - 1].v

(***************************************************************************)
(* C25: once should_stop has answered true, a control loop issues no       *)
(* further source-voltage command (so it starts no further pulse, wait or  *)
(* estimation phase, each of which begins with one).                       *)
(***************************************************************************)
C25_NoCommandAfterCancellation == [][stop => cmds' = cmds]_vars

(***************************************************************************)
(* C26: a primitive whose first poll of should_abort answers true returns  *)
(* normally: it raises no exception and has emitted no sample.             *)
(***************************************************************************)
C26_CancelledAtFirstPollReturns ==
    (prim \in PollingPrimitives /\ abortPoll = 1 /\ outcome # "none") =>
        /\ outcome = "returned"
        /\ raised = "none"
        /\ PrimSamples = {}

(***************************************************************************)
(* C27: a growth run configured with a diameter cutoff and a time cutoff   *)
(* checks them between its sweeps and pulses: no pulse is applied after a  *)
(* sweep whose estimate has reached the configured diameter, and none is  *)
(* sampled later than a pulse begun by the configured time can be.         *)
(***************************************************************************)
C27_ConfiguredCutoffEndsRun ==
    proto \in {"grow", "cbd_grow"} =>
        /\ \A k \in 1..Len(pstate.trace) : IsPulse(k) =>
              \A j \in 1..(k - 1) :
                  ~(pstate.trace[j].tag = "value"
                    /\ pstate.trace[j].v >= pstate.p.cutoff_diameter)
        /\ \A k \in 1..Len(samples) :
              samples[k].state = Val(IF proto = "grow" THEN 10 ELSE 11) =>
                  samples[k].time <= pstate.p.cutoff_time + 2

(***************************************************************************)
(* C28: in a run of CBDRampAndIV that is not cancelled, every breakdown    *)
(* sample (state 20) precedes every wait sample (state 10) and every wait  *)
(* sample every sweep sample (states 0 and 1); during the wait the source  *)
(* is commanded once, to 0 V plus the pipette offset; and by the time the  *)
(* sweep is called the wait has recorded a sample more than wait_time (1   *)
(* tick) after it began, so that no sweep voltage is commanded earlier.    *)
(***************************************************************************)
C28_RampThenWaitThenSweep ==
    (proto = "cbd_iv" /\ ~stop) =>
        /\ \A j, k \in 1..Len(samples) :
              \/ samples[j].state = Val(20) /\ samples[k].state = Val(10)
              \/ samples[j].state = Val(10) /\ samples[k].state \in {Val(0), Val(1)}
              => j < k
        /\ prim = "wait" =>
              /\ SubSeq(cmds, cbase + 1, Len(cmds)) = <<RatInt(0 + offset)>>
              /\ source = RatInt(0 + offset)
              /\ \A k \in PrimSamples : samples[k].voltage = RatInt(0)
        /\ prim \in {"ramp_cbd", "wait"} =>
              \A k \in 1..Len(samples) : samples[k].state \notin {Val(0), Val(1)}
        /\ ppc \in {"iv", "done"} =>
              \E k \in 1..Len(samples) :
                  /\ samples[k].state = Val(10)
                  /\ samples[k].time - (laps[2] - laps[1]) > 1
C28_Witness ==
    /\ proto = "cbd_iv"
    /\ ~stop
    /\ prim = "iv_curve"
    /\ ppc = "iv"
    /\ Len(cmds) > cbase
    /\ \E k \in 1..Len(samples) : samples[k].state = Val(0)

(***************************************************************************)
(* utilities/timer.py: a Timer on its own, its methods called in any order *)
(* on a monotonic clock.  prim is the method called last, loc.before the   *)
(* laps it found, loc.reading the clock reading it took (where it took     *)
(* one), result what it returned: for lap, lap_if and check the times      *)
(* (lap time, total time) and whether a lap was added.                     *)
(***************************************************************************)
MaxTimerCalls == 4   \* calls a timer is followed for

\* What a call leaves behind; exc is "none" or the exception raised before
\* anything else was done.
TimerCall(name, l, res, exc) ==
    /\ ncalls < MaxTimerCalls
    /\ ncalls' = ncalls + 1
    /\ prim' = name
    /\ laps' = l
    /\ result' = res
    /\ raised' = exc
    /\ outcome' = IF exc = "none" THEN "returned" ELSE "raised"
    /\ loc' = [before |-> laps, reading |-> now']
    /\ UNCHANGED <<stop, npolls, abortPoll, source, cmds, nreads, readsAfter,
                   samples, pc, par, offset, base, cbase, proto, ppc, pstate, env>>
    /\ UNCHANGED sinkVars

\* Timer.start, lines 28-33
start ==
    IF TimerRunning(laps)
      THEN /\ UNCHANGED <<now, stalls>>
           /\ TimerCall("start", laps, None, "TimerError")
      ELSE \E dt \in env.dts :
           /\ Tick(dt)
           /\ TimerCall("start", TimerAppend(laps, now'), None, "none")

\* Timer.reset, lines 39-41
reset ==
    /\ UNCHANGED <<now, stalls>>
    /\ TimerCall("reset", <<>>, None, "none")

\* Timer.lap, lines 43-48: the times are those of the new lap since the one
\* before it and since the first.
lap ==
    IF ~TimerRunning(laps)
      THEN /\ UNCHANGED <<now, stalls>>
           /\ TimerCall("lap", laps, None, "TimerError")
      ELSE \E dt \in env.dts :
           /\ Tick(dt)
           /\ TimerCall("lap", TimerAppend(laps, now'),
                        [times |-> TimerCheck(laps, now'), lapped |-> TRUE],
                        "none")

\* Timer.start_or_lap, lines 50-55: returns nothing either way.
start_or_lap ==
    \E dt \in env.dts :
        /\ Tick(dt)
        /\ TimerCall("start_or_lap", TimerAppend(laps, now'), None, "none")

\* Timer.lap_if, lines 57-67
lap_if ==
    IF ~TimerRunning(laps)
      THEN /\ UNCHANGED <<now, stalls>>
           /\ TimerCall("lap_if", laps, None, "TimerError")
      ELSE \E dt \in env.dts, threshold \in {0, 1} :
           /\ Tick(dt)
           /\ IF now' - Last(laps) > threshold
                THEN TimerCall("lap_if", TimerAppend(laps, now'),
                               [times |-> TimerCheck(laps, now'),
                                lapped |-> TRUE], "none")
                ELSE TimerCall("lap_if", laps,
                               [times |-> TimerCheck(laps, now'),
                                lapped |-> FALSE], "none")

\* Timer.check, lines 69-75
check ==
    IF ~TimerRunning(laps)
      THEN /\ UNCHANGED <<now, stalls>>
           /\ TimerCall("check", laps, None, "TimerError")
      ELSE \E dt \in env.dts :
           /\ Tick(dt)
           /\ TimerCall("check", laps,
                        [times |-> TimerCheck(laps, now'), lapped |-> FALSE],
                        "none")

InitTimer ==
    /\ InitSink("transient")
    /\ InitRun("timer", "none", NoProtocol, FreeEnv)

NextTimer ==
    \/ start
    \/ reset
    \/ lap
    \/ start_or_lap
    \/ lap_if
    \/ check

SpecTimer == InitTimer /\ [][NextTimer]_vars

(***************************************************************************)
(* C29: start on a timer that is running, and lap, check and lap_if on one *)
(* that is not, raise TimerError and leave the laps as they were; no other *)
(* call of a Timer method raises.                                          *)
(***************************************************************************)
C29_MisuseRaisesAndKeepsLaps ==
    (proto = "timer" /\ prim # "none") =>
        IF \/ prim = "start" /\ loc.before # <<>>
           \/ prim \in {"lap", "check", "lap_if"} /\ loc.before = <<>>
          THEN /\ outcome = "raised"
               /\ raised = "TimerError"
               /\ laps = loc.before
          ELSE /\ outcome = "returned"
               /\ raised = "none"
C29_Witness ==
    /\ proto = "timer"
    /\ prim = "start"
    /\ Len(loc.before) = 2
    /\ raised = "TimerError"
    /\ laps = loc.before

(***************************************************************************)
(* C30 as claimed: whatever methods were called, on a clock that never     *)
(* goes back, the lap timestamps are strictly increasing and running() is  *)
(* true exactly when there is a lap.                                       *)
(***************************************************************************)
C30_LapsStrictlyIncrease ==
    proto = "timer" =>
        /\ \A k \in 2..Len(laps) : laps[k - 1] < laps[k]
        /\ TimerRunning(laps) <=> laps # <<>>

(***************************************************************************)
(* C30 as the code has it: the lap timestamps never decrease, they are     *)
(* strictly increasing as long as no clock reading has repeated the one    *)
(* before it, a lap that lap_if adds is later than the lap before it, and  *)
(* running() is true exactly when there is a lap.                          *)
(***************************************************************************)
C30_LapsNeverDecrease ==
    proto = "timer" =>
        /\ \A k \in 2..Len(laps) : laps[k - 1] <= laps[k]
        /\ stalls = 0 => \A k \in 2..Len(laps) : laps[k - 1] < laps[k]
        /\ (prim = "lap_if" /\ laps # loc.before) =>
              Last(laps) > Last(loc.before)
        /\ TimerRunning(laps) <=> laps # <<>>
C30_Witness ==
    /\ proto = "timer"
    /\ prim = "lap"
    /\ outcome = "returned"
    /\ Len(laps) >= 2
    /\ laps[Len(laps)] = laps[Len(laps) - 1]

(***************************************************************************)
(* C31: check, and lap_if when the time since the last lap does not exceed *)
(* the threshold, leave the laps as they were and return (reading - last   *)
(* lap, reading - first lap); lap, and lap_if when the threshold is        *)
(* exceeded, append the reading and nothing else and return the same pair  *)
(* measured at the appended timestamp; no time returned is negative.       *)
(***************************************************************************)
C31_ChecksKeepAndLapsAppend ==
    (proto = "timer" /\ prim \in {"check", "lap", "lap_if"}
        /\ outcome = "returned") =>
        /\ result.times = <<loc.reading - Last(loc.before),
                            loc.reading - loc.before[1]>>
        /\ result.times[1] >= 0 /\ result.times[2] >= result.times[1]
        /\ prim = "check" => ~result.lapped
        /\ prim = "lap" => result.lapped
        /\ (prim = "lap_if" /\ result.lapped) => result.times[1] > 0
        /\ IF result.lapped
             THEN /\ laps = Append(loc.before, loc.reading)
                  /\ result.times = <<laps[Len(laps)] - laps[Len(laps) - 1],
                                      laps[Len(laps)] - laps[1]>>
             ELSE laps = loc.before
C31_Witness ==
    /\ proto = "timer"
    /\ prim = "lap_if"
    /\ outcome = "returned"
    /\ result.lapped
    /\ Len(laps) >= 3
    /\ result.times[1] < result.times[2]
C31_WitnessKept ==
    /\ proto = "timer"
    /\ prim = "lap_if"
    /\ outcome = "returned"
    /\ ~result.lapped
    /\ result.times[1] = 1

(***************************************************************************)
(* utilities/aborter.py: an Aborter on its own, should_abort called again  *)
(* and again with any log message.  npolls counts the evaluations of       *)
(* should_stop; pstate.answers is what each call returned, pstate.warnings *)
(* what the calls gave to log.warning.                                     *)
(***************************************************************************)
MaxAbortCalls == 6   \* calls of should_abort an aborter is followed for

\* Aborter.should_abort, lines 14-19
should_abort ==
    /\ proto = "aborter"
    /\ Len(pstate.answers) < MaxAbortCalls
    /\ \E ans \in BOOLEAN,
          log_message \in {"Catch stop command in procedure", "stop"} :
        /\ Poll(ans)
        /\ pstate' = [pstate EXCEPT
               !.answers = Append(@, IF ans THEN TRUE ELSE FALSE),
               !.warnings = IF ans
                              THEN Append(@, [call |-> Len(pstate.answers) + 1,
                                              message |-> log_message])
                              ELSE @]
    /\ prim' = "should_abort"
    /\ outcome' = "returned"
    /\ ncalls' = ncalls + 1
    /\ UNCHANGED <<now, stalls, laps, source, cmds, nreads, readsAfter, samples,
                   pc, par, loc, offset, base, cbase, result, raised,
                   proto, ppc, env>>
    /\ UNCHANGED sinkVars

InitAborter ==
    /\ InitSink("transient")
    /\ InitRun("aborter", "none", [answers |-> <<>>, warnings |-> <<>>], FreeEnv)

SpecAborter == InitAborter /\ [][should_abort]_vars

(***************************************************************************)
(* C32: every call of should_abort evaluates should_stop once and returns  *)
(* what it answered; a call that saw false logs no warning, and the first  *)
(* call that sees true (like every later one) logs one warning, with the   *)
(* message it was given.                                                   *)
(***************************************************************************)
C32_OneEvaluationOneAnswer ==
    (proto = "aborter" /\ prim = "should_abort") =>
        /\ npolls = Len(pstate.answers)
        /\ Last(pstate.answers) = stop
        /\ \A k \in 1..Len(pstate.answers) :
              Cardinality({w \in 1..Len(pstate.warnings) :
                             pstate.warnings[w].call = k})
                = IF pstate.answers[k] THEN 1 ELSE 0
        /\ abortPoll # 0 =>
              /\ pstate.warnings # <<>>
              /\ pstate.warnings[1].call = abortPoll
              /\ \A k \in 1..(abortPoll - 1) : ~pstate.answers[k]
C32_Witness ==
    /\ proto = "aborter"
    /\ abortPoll = 3
    /\ Len(pstate.answers) = 4
    /\ Len(pstate.warnings) = 2

(***************************************************************************)
(* utilities/emitter.py and utilities/progress.py: a sink on its own,      *)
(* configured with a progress style (an Emitter takes any string, the      *)
(* Absolute- and RelativeProgressor are its two styles), and its progress  *)
(* method called with any arguments.  pstate.calls is the calls made,      *)
(* pstate.progress the values given to emit("progress", ...).  A call's    *)
(* numpy flag says that its arguments are numpy floats (what iv_curve      *)
(* returns) and not Python numbers: a Python division by zero raises       *)
(* ZeroDivisionError, a numpy one gives a non-finite value and a warning.  *)
(***************************************************************************)
MaxProgressCalls == 2   \* calls of progress a sink is followed for

\* Emitter.progress, lines 34-41; AbsoluteProgressor.progress, lines 20-21;
\* RelativeProgressor.progress, lines 29-30.
progress ==
    /\ proto = "progress"
    /\ Len(pstate.calls) < MaxProgressCalls
    /\ \E initial \in 0..1, target \in 0..2, current \in 0..2, numpy \in BOOLEAN :
        LET call == [initial |-> initial, target |-> target,
                     current |-> current, numpy |-> numpy]
            value == Progress(env.progress_style, initial, target, current)
        IN
        IF env.progress_style \notin {"absolute", "relative"}
          THEN /\ pstate' = [pstate EXCEPT !.calls = Append(@, call)]
               /\ outcome' = "returned"
               /\ raised' = "none"
          ELSE IF value.d = 0 /\ ~numpy
          THEN /\ pstate' = [pstate EXCEPT !.calls = Append(@, call)]
               /\ outcome' = "raised"
               /\ raised' = "ZeroDivisionError"
          ELSE /\ pstate' = [pstate EXCEPT !.calls = Append(@, call),
                                           !.progress = Append(@, value)]
               /\ outcome' = "returned"
               /\ raised' = "none"
    /\ prim' = "progress"
    /\ ncalls' = ncalls + 1
    /\ UNCHANGED <<now, stalls, laps, stop, npolls, abortPoll, source, cmds,
                   nreads, readsAfter, samples, pc, par, loc, offset, base,
                   cbase, result, proto, ppc, env>>
    /\ UNCHANGED sinkVars

InitProgress ==
    /\ InitSink("transient")
    /\ \E style \in {"absolute", "relative", "physical"} :
         InitRun("progress", "none", [calls |-> <<>>, progress |-> <<>>],
                 [FreeEnv EXCEPT !.progress_style = style])

SpecProgress == InitProgress /\ [][progress]_vars

(***************************************************************************)
(* C33 as claimed: a progress call emits the fraction current / target     *)
(* under the absolute style and (current - initial) / (target - initial)   *)
(* under the relative style.                                               *)
(***************************************************************************)
C33_EmitsTheFraction ==
    (proto = "progress" /\ prim = "progress" /\ outcome = "returned"
        /\ env.progress_style \in {"absolute", "relative"}) =>
        LET c == Last(pstate.calls) IN
        /\ pstate.progress # <<>>
        /\ RatEq(Last(pstate.progress),
                 IF env.progress_style = "absolute"
                   THEN [n |-> c.current, d |-> c.target]
                   ELSE Rat(c.current - c.initial, c.target - c.initial))

(***************************************************************************)
(* C33 as the code has it: a progress call that returns has emitted one    *)
(* value, 100 times the fraction of the style the sink was configured      *)
(* with (non-finite where numpy divided by zero); a sink configured with   *)
(* any other style emits nothing; the style never changes.                 *)
(***************************************************************************)
C33_EmitsThePercentage ==
    (proto = "progress" /\ prim = "progress" /\ outcome = "returned") =>
        LET c == Last(pstate.calls) IN
        IF env.progress_style = "absolute"
          THEN /\ pstate.progress # <<>>
               /\ Last(pstate.progress).n * c.target
                    = 100 * c.current * Last(pstate.progress).d
               /\ Last(pstate.progress).d = 0 <=> c.target = 0
          ELSE IF env.progress_style = "relative"
          THEN /\ pstate.progress # <<>>
               /\ Last(pstate.progress).n * (c.target - c.initial)
                    = 100 * (c.current - c.initial) * Last(pstate.progress).d
               /\ Last(pstate.progress).d = 0 <=> c.target = c.initial
          ELSE pstate.progress = <<>>
C33_Witness ==
    /\ proto = "progress"
    /\ env.progress_style = "relative"
    /\ outcome = "returned"
    /\ Len(pstate.calls) = 2
    /\ Last(pstate.calls) = [initial |-> 1, target |-> 2, current |-> 2,
                            numpy |-> FALSE]
    /\ Last(pstate.progress) = RatInt(100)

(***************************************************************************)
(* C34: under the relative style a progress call with target = initial is  *)
(* an error for its caller: it raises, and no progress value is emitted    *)
(* for it.                                                                 *)
(***************************************************************************)
C34_UndefinedFractionRaises ==
    (proto = "progress" /\ prim = "progress"
        /\ env.progress_style = "relative"
        /\ Last(pstate.calls).target = Last(pstate.calls).initial
        /\ Len(pstate.calls) = 1) =>
        /\ outcome = "raised"
        /\ pstate.progress = <<>>

(***************************************************************************)
(* C35: a pipette_offset call that was cancelled (should_abort answered    *)
(* true during the baseline hold or during a round) does not return what a *)
(* converged search at 0 V returns, the offset 0.                          *)
(***************************************************************************)
C35_CancelledOffsetIsNotZero ==
    (prim = "pipette_offset" /\ outcome = "returned" /\ stop) =>
        result # Val(0)

(***************************************************************************)
(* C36: whenever a primitive emits a sample, the sample's voltage field is *)
(* the voltage commanded to the source at that moment minus the pipette    *)
(* offset.                                                                 *)
(***************************************************************************)
C36_SampleVoltageIsNominal ==
    [][Len(samples') > Len(samples) =>
         RatEq(samples'[Len(samples')].voltage,
               Rat(source'.n - offset * source'.d, source'.d))]_vars

(***************************************************************************)
(* The trial voltage of pipette_offset as the Python floats it is computed *)
(* in (helpers/pipette_offset_2022_0.py, lines 61-114).  max_offset is a   *)
(* power of two (the default, 0.25, is one), so that max_offset/2 and      *)
(* max_offset / 2**(i + 2) are exact; a voltage is a sign and a magnitude  *)
(* counted in units of max_offset / 2^UnitBits, kept in two limbs of 28    *)
(* bits, and each sum is rounded to the nearest float of MantissaBits      *)
(* significant bits, ties to even.  A hold is reduced to what it decides:  *)
(* cancelled, mean within the threshold, mean positive, or anything else   *)
(* (a negative or NaN mean).  A load whose zero-current voltage lies       *)
(* beyond max_offset keeps the sign of its current from some round on:     *)
(* pstate.free is the number of holds whose mean is any, pstate.load the   *)
(* sign of the later ones.                                                 *)
(***************************************************************************)
MantissaBits == 53   \* significant bits of a Python float
MaxRounds == 54      \* the largest iterations argument followed
UnitBits == MaxRounds + 1
Limb == 2 ^ 28

FloatPow2(k) ==
    IF k >= 28 THEN [hi |-> 2 ^ (k - 28), lo |-> 0] ELSE [hi |-> 0, lo |-> 2 ^ k]
BitLength(n) == CHOOSE b \in 0..30 : n < 2 ^ b /\ (b = 0 \/ 2 ^ (b - 1) <= n)
MagLength(m) == IF m.hi > 0 THEN 28 + BitLength(m.hi) ELSE BitLength(m.lo)
MagLess(a, b) == a.hi < b.hi \/ (a.hi = b.hi /\ a.lo < b.lo)
MagAdd(a, b) ==
    [hi |-> a.hi + b.hi + ((a.lo + b.lo) \div Limb), lo |-> (a.lo + b.lo) % Limb]
MagSub(a, b) ==
    IF a.lo >= b.lo THEN [hi |-> a.hi - b.hi, lo |-> a.lo - b.lo]
    ELSE [hi |-> a.hi - b.hi - 1, lo |-> a.lo + Limb - b.lo]

\* round to nearest, ties to even, at MantissaBits significant bits
RoundHalfEven(m) ==
    LET r == MagLength(m) - MantissaBits IN
    IF r <= 0 THEN m
    ELSE LET q == m.lo \div (2 ^ r)
             rem == m.lo % (2 ^ r)
             half == 2 ^ (r - 1)
             up == rem > half \/ (rem = half /\ q % 2 = 1)
             lo == (IF up THEN q + 1 ELSE q) * (2 ^ r)
         IN [hi |-> m.hi + (lo \div Limb), lo |-> lo % Limb]

\* a + b and a - b of two floats
FloatAdd(a, b) ==
    IF a.neg = b.neg THEN [neg |-> a.neg, mag |-> RoundHalfEven(MagAdd(a.mag, b.mag))]
    ELSE IF MagLess(a.mag, b.mag)
      THEN [neg |-> b.neg, mag |-> RoundHalfEven(MagSub(b.mag, a.mag))]
    ELSE [neg |-> a.neg, mag |-> RoundHalfEven(MagSub(a.mag, b.mag))]
FloatNeg(a) == [a EXCEPT !.neg = ~@]
FloatZero == [neg |-> FALSE, mag |-> [hi |-> 0, lo |-> 0]]
FloatMaxOffset == [neg |-> FALSE, mag |-> FloatPow2(UnitBits)]

\* lines 67-70: max_offset / 2;  lines 108-111: max_offset / (2 ** (i + 2))
FloatFirstTrial == [neg |-> FALSE, mag |-> FloatPow2(UnitBits - 1)]
FloatStepWide(i) == [neg |-> FALSE, mag |-> FloatPow2(UnitBits - (i + 1))]
FloatStep(i) == [neg |-> FALSE, mag |-> FloatPow2(UnitBits - (i + 2))]

HoldOutcomes ==
    {"abort", "within"} \cup
    (IF pstate.holds < pstate.free THEN {"positive", "other"} ELSE {pstate.load})

FloatReturn(v) ==
    /\ outcome' = "returned"
    /\ result' = v

\* lines 32-70: the baseline at 0 V and what it decides.
offset_baseline ==
    /\ proto = "offset_floats"
    /\ pstate.stage = "baseline"
    /\ \E h \in HoldOutcomes :
        IF h \in {"abort", "within"}
          THEN /\ FloatReturn(FloatZero)
               /\ pstate' = [pstate EXCEPT !.stage = "done", !.holds = @ + 1,
                                           !.commanded = FloatZero]
          ELSE /\ pstate' = [pstate EXCEPT
                    !.stage = "rounds", !.holds = @ + 1, !.commanded = FloatZero,
                    !.voltage = IF h = "positive" THEN FloatNeg(FloatFirstTrial)
                                ELSE FloatFirstTrial]
               /\ UNCHANGED <<outcome, result>>
    /\ prim' = "pipette_offset"
    /\ ncalls' = ncalls + 1
    /\ UNCHANGED <<now, stalls, laps, stop, npolls, abortPoll, source, cmds,
                   nreads, readsAfter, samples, pc, par, loc, offset, base,
                   cbase, raised, proto, ppc, env>>
    /\ UNCHANGED sinkVars

\* lines 72-111: round i, cancelled before its trial voltage is commanded,
\* or holding it and then returning it or moving it.
offset_round ==
    /\ proto = "offset_floats"
    /\ pstate.stage = "rounds"
    /\ pstate.i < pstate.iterations
    /\ \E h \in HoldOutcomes :
        IF h = "abort"
          THEN /\ FloatReturn(pstate.voltage)
               /\ pstate' = [pstate EXCEPT !.stage = "done"]
        ELSE IF h = "within"
          THEN /\ FloatReturn(pstate.voltage)
               /\ pstate' = [pstate EXCEPT !.stage = "done", !.holds = @ + 1,
                                           !.commanded = pstate.voltage]
        ELSE /\ pstate' = [pstate EXCEPT
                  !.holds = @ + 1, !.commanded = pstate.voltage,
                  !.voltage = IF h = "positive"
                                THEN FloatAdd(@, FloatNeg(FloatStep(pstate.i)))
                                ELSE FloatAdd(@, FloatStep(pstate.i)),
                  !.i = @ + 1]
             /\ UNCHANGED <<outcome, result>>
    /\ UNCHANGED <<now, stalls, laps, stop, npolls, abortPoll, source, cmds,
                   nreads, readsAfter, samples, pc, par, loc, offset, base,
                   cbase, raised, proto, ppc, env, prim, ncalls>>
    /\ UNCHANGED sinkVars

\* lines 113-114: the rounds are used up.
offset_exhausted ==
    /\ proto = "offset_floats"
    /\ pstate.stage = "rounds"
    /\ pstate.i = pstate.iterations
    /\ FloatReturn(pstate.voltage)
    /\ pstate' = [pstate EXCEPT !.stage = "done"]
    /\ UNCHANGED <<now, stalls, laps, stop, npolls, abortPoll, source, cmds,
                   nreads, readsAfter, samples, pc, par, loc, offset, base,
                   cbase, raised, proto, ppc, env, prim, ncalls>>
    /\ UNCHANGED sinkVars

InitOffsetFloats ==
    /\ InitSink("transient")
    /\ \E n \in {0, 3, MantissaBits, MaxRounds}, f \in 0..2, l \in {"positive", "other"} :
         InitRun("offset_floats", "none",
                 [iterations |-> n, free |-> f, load |-> l, holds |-> 0,
                  stage |-> "baseline", voltage |-> FloatZero, i |-> 0,
                  commanded |-> FloatZero],
                 FreeEnv)

NextOffsetFloats ==
    \/ offset_baseline
    \/ offset_round
    \/ offset_exhausted

SpecOffsetFloats == InitOffsetFloats /\ [][NextOffsetFloats]_vars

(***************************************************************************)
(* C37 as claimed: every trial voltage pipette_offset commands, and the    *)
(* value it returns, has a magnitude strictly less than max_offset,        *)
(* whatever the number of iterations and the measured currents.            *)
(***************************************************************************)
C37_TrialsStrictlyInsideMaxOffset ==
    proto = "offset_floats" =>
        /\ MagLess(pstate.commanded.mag, FloatMaxOffset.mag)
        /\ outcome = "returned" => MagLess(result.mag, FloatMaxOffset.mag)

(***************************************************************************)
(* C37 as it holds: for a positive max_offset, no trial voltage commanded  *)
(* and no value returned has a magnitude above max_offset, and each is     *)
(* strictly below max_offset as long as the trial voltage was moved fewer  *)
(* than MantissaBits times; the trial voltage starts at half of max_offset *)
(* in magnitude and is never 0.                                            *)
(***************************************************************************)
C37_TrialsWithinMaxOffset ==
    proto = "offset_floats" =>
        /\ ~MagLess(FloatMaxOffset.mag, pstate.commanded.mag)
        /\ pstate.i < MantissaBits =>
              MagLess(pstate.commanded.mag, FloatMaxOffset.mag)
        /\ pstate.stage = "rounds" =>
              /\ MagLess(FloatZero.mag, pstate.voltage.mag)
              /\ pstate.i = 0 => pstate.voltage.mag = FloatFirstTrial.mag
        /\ outcome = "returned" =>
              /\ ~MagLess(FloatMaxOffset.mag, result.mag)
              /\ pstate.i < MantissaBits => MagLess(result.mag, FloatMaxOffset.mag)

C37_Witness ==
    /\ proto = "offset_floats"
    /\ outcome = "returned"
    /\ pstate.i = MaxRounds
    /\ pstate.free = 2
    /\ pstate.commanded.mag = FloatMaxOffset.mag
    /\ result.mag = FloatMaxOffset.mag

(***************************************************************************)
(* C38: an iv_curve call that completes its sweep (it returns a diameter)  *)
(* has emitted exactly one sample that supplies estimated_diameter: its    *)
(* last one, tagged reporting_state and carrying the returned diameter in  *)
(* nanometres.  Every other sample of the call, and every sample of a call *)
(* that is still running, was cancelled or failed, is tagged               *)
(* estimation_state and supplies no estimated_diameter.                    *)
(***************************************************************************)
C38_OneDiameterSamplePerSweep ==
    prim = "iv_curve" =>
        LET mine == {k \in 1..Len(samples) : k > base}
            bearing == {k \in mine : samples[k].estimated_diameter # Unset}
            completed == result # None
        IN
        /\ completed =>
             /\ bearing = {Len(samples)}
             /\ samples[Len(samples)].state = par.reporting_state
             /\ samples[Len(samples)].estimated_diameter = Nanometres(result)
        /\ ~completed => bearing = {}
        /\ \A k \in mine \ bearing : samples[k].state = par.estimation_state

C38_Witness ==
    /\ prim = "iv_curve"
    /\ outcome = "returned"
    /\ proto = "cbd_iv"
    /\ result = Val(1)
    /\ Len(samples) - base >= 3
    /\ samples[Len(samples)].estimated_diameter = Val(5)
    /\ samples[Len(samples)].state = Val(1)
    /\ samples[Len(samples) - 1].state = Val(0)

(***************************************************************************)
(* One call of a bounded primitive (square_pulse, wait, leak_test,         *)
(* iv_curve, pipette_offset) on a clock that advances by a positive amount *)
(* between any two readings, the device reading any current and should_    *)
(* abort answering anything, never true included.  The code is one         *)
(* sequential thread: a step that can be taken is taken, which is the weak *)
(* fairness of NextBounded.  LiveClock is a clock reading no such call     *)
(* lives to see.                                                           *)
(***************************************************************************)
LiveClock == 30
StalledEnv ==
    [dts |-> {0}, max_clock |-> LiveClock, currents |-> Currents,
     rising |-> FALSE, estimates |-> {Val(1), None}, progress_style |-> "absolute"]
BoundedEnv ==
    [dts |-> {1, 2}, max_clock |-> LiveClock, currents |-> Currents,
     rising |-> FALSE, estimates |-> {Val(1), None}, progress_style |-> "absolute"]

InitBounded ==
    /\ InitSink("transient")
    /\ InitRun("free", "none", NoProtocol, BoundedEnv)

NextBounded ==
    \/ square_pulse
    \/ wait
    \/ pulse_loop
    \/ leak_test
    \/ leak_test_loop
    \/ iv_curve
    \/ iv_step
    \/ iv_sample
    \/ iv_finish
    \/ pipette_offset
    \/ po_hold
    \/ po_decide
    \/ po_round
    \/ po_update

SpecBounded == InitBounded /\ [][NextBounded]_vars /\ WF_vars(NextBounded)

(***************************************************************************)
(* C39: on a clock that advances by a positive amount between successive   *)
(* readings, a call of square_pulse, wait, leak_test, iv_curve or          *)
(* pipette_offset that has begun comes to its end (it returns or raises),  *)
(* whatever the currents read and even if should_abort never answers true. *)
(***************************************************************************)
C39_BoundedPrimitivesTerminate ==
    (pc \notin {"idle", "failed"}) ~> (outcome # "none" /\ pc \in {"idle", "failed"})

C39_Witness ==
    /\ proto = "free"
    /\ env.max_clock = LiveClock
    /\ prim = "pipette_offset"
    /\ outcome = "returned"
    /\ ~stop
    /\ loc.i = par.iterations
    /\ Len(samples) >= 4
    /\ now < LiveClock

====
